---- MODULE Spec2Model ----
(***************************************************************************)
(* Verkle trie write path (verkle-trie/src/trie.rs): the plan/execute      *)
(* insertion state machine and its delta-based commitment maintenance.     *)
(*                                                                         *)
(* Scalars Fr are the integers modulo FrModulus.  A group element is the   *)
(* vector of its coefficients over the SRS basis G_0 .. G_{Width-1}, so    *)
(* that two points are equal exactly when they commit to the same vector.  *)
(* Keys are sequences of KeyLen path indices in 0..Width-1; a value is the *)
(* pair <<low, high>> of its two halves.                                   *)
(***************************************************************************)
EXTENDS Integers, Sequences, FiniteSets

----------------------------------------------------------------------------
(* Bounds of the model *)

StemLen == 3
HalfWidth == 2
MaxHalf == 2
MaxInserts == 3
MaxPhasedInserts == 2
MaxRel == 3
ArenaPaths == 3
MaxArenaInserts == 3
TwoAdicity == 3
LogDomain == 2
UsizeBits == 64
FrModulus == 8191

KeyLen == StemLen + 1
Width == 2 * HalfWidth
TwoPow128 == MaxHalf + 1

None == <<>>
Some(x) == <<x>>

PathIdx == 0 .. (Width - 1)

\* Inputs of the model.  Stems: the all-zero stem and the stems with a single
\* index 1, which diverge from it and from each other at every depth, and the
\* stem with index 1 at both ends, which shares with the first unit stem a
\* prefix of different indices.  The
\* all-zero stem is written at two slots of the first bank and one of the
\* second, the other stems at one slot of the second bank.  Values: the
\* all-zero value and a value with distinct non-zero halves.
UnitStem(i) == [j \in 1 .. StemLen |-> IF j = i THEN 1 ELSE 0]
Slots == {0, 1, HalfWidth}
EndStem == [j \in 1 .. StemLen |-> IF j \in {1, StemLen} THEN 1 ELSE 0]
Keys == {Append(UnitStem(0), p) : p \in Slots}
            \cup {Append(UnitStem(i), HalfWidth + 1) : i \in 1 .. StemLen}
            \cup {Append(EndStem, 1)}
ZeroValue == <<0, 0>>
Values == {ZeroValue, <<1, MaxHalf>>}

----------------------------------------------------------------------------
(* Field and group arithmetic facade *)

FrAdd(a, b) == (a + b) % FrModulus
FrSub(a, b) == (a - b) % FrModulus
FrZero == 0

\* Fr::from_le_bytes_mod_order on one 16-byte half of a value
FrFromHalf(h) == h % FrModulus

\* Fr::from_le_bytes_mod_order on the bytes of a stem (little endian)
RECURSIVE FrFromLeBytes(_, _)
FrFromLeBytes(bytes, n) ==
    IF n = 0 THEN 0
    ELSE (bytes[1] + Width * FrFromLeBytes(Tail(bytes), n - 1)) % FrModulus

GZero == [i \in PathIdx |-> 0]
GAdd(p, q) == [i \in PathIdx |-> (p[i] + q[i]) % FrModulus]

\* Committer::scalar_mul(s, i) = s * G_i
ScalarMul(s, i) == [j \in PathIdx |-> IF j = i THEN s % FrModulus ELSE 0]

SRS(i) == ScalarMul(1, i)

\* group_to_field: the identity point maps to zero, any other point to a
\* non-linear digest of its coordinates
RECURSIVE Digest(_, _)
Digest(p, n) ==
    IF n = 0 THEN 7
    ELSE LET t == (Digest(p, n - 1) * 31 + p[n - 1] + n) % FrModulus
         IN  (t * t + 3 * t + n) % FrModulus
GroupToField(p) ==
    IF p = GZero THEN 0 ELSE 1 + (Digest(p, Width) % (FrModulus - 1))

----------------------------------------------------------------------------
(* Storage layer: Leaf, Stem and Branch tables *)

Put(f, k, v) == [x \in (DOMAIN f) \cup {k} |-> IF x = k THEN v ELSE f[x]]

BranchMetaZero == [commitment |-> GZero, hash_commitment |-> FrZero]

EmptyDb == [leaf |-> <<>>, stem |-> <<>>, branch |-> <<>>]

root_is_missing(db) == <<>> \notin DOMAIN db.branch

get_leaf(db, key) ==
    IF key \in DOMAIN db.leaf THEN Some(db.leaf[key].value) ELSE None

get_stem_meta(db, stem) ==
    IF stem \in DOMAIN db.stem THEN Some(db.stem[stem].meta) ELSE None

get_branch_meta(db, path) ==
    IF path \in DOMAIN db.branch /\ db.branch[path].kind = "branch"
    THEN Some(db.branch[path].meta) ELSE None

get_branch_child(db, path, index) ==
    LET child_index == Append(path, index)
    IN  IF child_index \in DOMAIN db.branch
        THEN Some(db.branch[child_index]) ELSE None

\* the (last index, value) pairs of the leaves stored under the stem
get_stem_children(db, stem) ==
    {<<key[Len(key)], db.leaf[key].value>> :
        key \in {k \in DOMAIN db.leaf : SubSeq(k, 1, Len(k) - 1) = stem}}

\* returns the store after the write; the previous value is get_leaf before
insert_leaf(db, key, value, depth) ==
    [db EXCEPT !.leaf = Put(@, key, [value |-> value, depth |-> depth])]

insert_stem(db, stem, meta, depth) ==
    [db EXCEPT !.stem = Put(@, stem, [meta |-> meta, depth |-> depth])]

insert_branch(db, path, meta, depth) ==
    [db EXCEPT !.branch =
        Put(@, path, [kind |-> "branch", meta |-> meta, depth |-> depth])]

add_stem_as_branch_child(db, branch_child_id, stem, depth) ==
    [db EXCEPT !.branch =
        Put(@, branch_child_id, [kind |-> "stem", stem |-> stem, depth |-> depth])]

----------------------------------------------------------------------------
(* Key helpers *)

StemOf(key) == SubSeq(key, 1, StemLen)

\* mutant: the comparison stops at the first index
SharedLen_StopsAtOnce(a, b, n) == n

RECURSIVE SharedLen(_, _, _)
SharedLen(a, b, n) ==
    IF n < Len(a) /\ n < Len(b) /\ a[n + 1] = b[n + 1]
    THEN SharedLen(a, b, n + 1) ELSE n

\* Key::path_difference: (shared prefix, first differing index of a, of b)
path_difference(a, b) ==
    LET n == SharedLen(a, b, 0)
    IN  [shared |-> SubSeq(a, 1, n),
         diff_a |-> IF n < Len(a) THEN Some(a[n + 1]) ELSE None,
         diff_b |-> IF n < Len(b) THEN Some(b[n + 1]) ELSE None]

\* mutant: the i-th path takes one index fewer
paths_from_relative_SliceLate(parent_path, relative_paths) ==
    [i \in 1 .. Len(relative_paths) |->
        parent_path \o SubSeq(relative_paths, 1, i - 1)]

paths_from_relative(parent_path, relative_paths) ==
    [i \in 1 .. Len(relative_paths) |-> parent_path \o SubSeq(relative_paths, 1, i)]

----------------------------------------------------------------------------
(* Planning: Trie::create_insert_instructions *)

UpdateLeafIns(key, value, depth, branch_id, branch_child_index) ==
    [op |-> "UpdateLeaf", key |-> key, new_leaf_value |-> value,
     depth |-> depth, branch_id |-> branch_id,
     branch_child_index |-> branch_child_index]

\* mutant: the instruction names the branch itself as the child
InternalNodeFallThroughIns_ChildIsBranch(branch_id, branch_child_index, child, depth, old_child_value) ==
    [op |-> "InternalNodeFallThrough", branch_id |-> branch_id,
     branch_child_index |-> branch_child_index, child |-> branch_id,
     old_child_value |-> old_child_value, depth |-> depth]

InternalNodeFallThroughIns(branch_id, branch_child_index, child, depth, old_child_value) ==
    [op |-> "InternalNodeFallThrough", branch_id |-> branch_id,
     branch_child_index |-> branch_child_index, child |-> child,
     old_child_value |-> old_child_value, depth |-> depth]

ChainInsertIns(chain_insert_path, starting_depth, parent_branch_node, child_index, old_leaf_index, new_leaf_key, new_leaf_value, new_leaf_index) ==
    [op |-> "ChainInsert", chain_insert_path |-> chain_insert_path,
     starting_depth |-> starting_depth,
     parent_branch_node |-> parent_branch_node, child_index |-> child_index,
     old_leaf_index |-> old_leaf_index, new_leaf_key |-> new_leaf_key,
     new_leaf_value |-> new_leaf_value, new_leaf_index |-> new_leaf_index]

\* what create_insert_instructions leaves: the instructions it returns, or
\* the panic of a slice or of an unwrap
PlanReturns(instructions) == [status |-> "ok", instructions |-> instructions]
PlanPanics == [status |-> "panic", instructions |-> <<>>]

\* mutant: the early return for an unchanged value is missing
PlanSameStem_NoEarlyReturn(db, key, value, current_node_index, loop_index, instructions, pd) ==
    PlanReturns(Append(instructions,
                       UpdateLeafIns(key, value, loop_index,
                                     current_node_index, key[loop_index])))

\* Case 3a: the child is the stem of the key
PlanSameStem(db, key, value, current_node_index, loop_index, instructions, pd) ==
    LET leaf_val == get_leaf(db, key)
        old_leaf_val == IF leaf_val # None THEN leaf_val[1] ELSE ZeroValue
    IN  IF pd.diff_a = None /\ pd.diff_b # None THEN PlanPanics
        ELSE IF pd.diff_a = None /\ old_leaf_val = value
        THEN PlanReturns(<<>>)
        ELSE PlanReturns(Append(instructions,
                                UpdateLeafIns(key, value, loop_index,
                                              current_node_index,
                                              key[loop_index])))

\* mutant: the differing indices of the old stem and of the new key are swapped
PlanChainInsert_SwappedDiff(key, value, current_node_index, loop_index, instructions, pd) ==
    PlanReturns(
        Append(instructions,
               ChainInsertIns(SubSeq(pd.shared, loop_index, Len(pd.shared)),
                              loop_index, current_node_index, key[loop_index],
                              pd.diff_b[1], key, value, pd.diff_a[1])))

\* mutant: the chain goes one index of the key below the shared prefix
PlanChainInsert_OneDeeper(key, value, current_node_index, loop_index, instructions, pd) ==
    PlanReturns(
        Append(instructions,
               ChainInsertIns(Append(SubSeq(pd.shared, loop_index,
                                            Len(pd.shared)),
                                     key[Len(pd.shared) + 1]),
                              loop_index, current_node_index, key[loop_index],
                              pd.diff_a[1], key, value, pd.diff_b[1])))

\* Case 3b: the child is another stem sharing fewer than StemLen indices.
\* The slice shared_path[(loop_index - 1)..] panics when the stem shares
\* fewer than loop_index - 1 indices with the key, and so do the unwraps of
\* the differing indices when there are none
PlanChainInsert(key, value, current_node_index, loop_index, instructions, pd) ==
    IF loop_index - 1 > Len(pd.shared) \/ pd.diff_a = None \/ pd.diff_b = None
    THEN PlanPanics
    ELSE PlanReturns(
             Append(instructions,
                    ChainInsertIns(SubSeq(pd.shared, loop_index, Len(pd.shared)),
                                   loop_index, current_node_index,
                                   key[loop_index],
                                   pd.diff_a[1], key, value, pd.diff_b[1])))

\* mutant: the path index is not pushed, so the walk stays at the same branch
ChildPath_NoPush(current_node_index, path_index) == current_node_index

\* path of the child branch the walk descends into
ChildPath(current_node_index, path_index) ==
    Append(current_node_index, path_index)

RECURSIVE PlanFrom(_, _, _, _, _, _)
PlanFrom(db, key, value, current_node_index, loop_index, instructions) ==
    IF loop_index > KeyLen THEN PlanReturns(instructions)
    ELSE
    LET path_index == key[loop_index]
        child == get_branch_child(db, current_node_index, path_index)
    IN  IF child = None
        THEN PlanReturns(Append(instructions,
                                UpdateLeafIns(key, value, loop_index,
                                              current_node_index, path_index)))
        ELSE IF child[1].kind = "branch"
        THEN LET node_path == ChildPath(current_node_index, path_index)
             IN  PlanFrom(db, key, value, node_path, loop_index + 1,
                          Append(instructions,
                                 InternalNodeFallThroughIns(
                                     current_node_index, path_index, node_path,
                                     loop_index, Some(child[1].meta))))
        ELSE LET pd == path_difference(child[1].stem, StemOf(key))
             IN  IF Len(pd.shared) = StemLen
                 THEN PlanSameStem(db, key, value, current_node_index,
                                   loop_index, instructions, pd)
                 ELSE PlanChainInsert(key, value, current_node_index,
                                      loop_index, instructions, pd)

create_insert_instructions(db, key, value) ==
    PlanFrom(db, key, value, <<>>, 1, <<>>)

----------------------------------------------------------------------------
(* Execution: the three table updates *)

\* res = None when the stored value was already the inserted one
update_leaf_table(db, key, value, depth) ==
    LET old == get_leaf(db, key)
        db1 == insert_leaf(db, key, value, depth)
    IN  IF old # None /\ old[1] = value
        THEN [db |-> db1, res |-> None]
        ELSE [db |-> db1,
              res |-> Some([old_val |-> old, new_value |-> value, key |-> key])]

DeltaLow(new_low, old_low) ==
    FrSub(FrAdd(FrFromHalf(new_low), TwoPow128), FrFromHalf(old_low))

DeltaHigh(new_high, old_high) ==
    FrSub(FrFromHalf(new_high), FrFromHalf(old_high))

\* mutant: the position is not reduced modulo the bank size
LowIndex_NoMod(position) == 2 * position

\* index of the basis element of the low half; the high half uses the next
LowIndex(position) == 2 * (position % HalfWidth)

\* the old value of the leaf, all zero when there was none
OldValueOrZero(old_val) == IF old_val # None THEN old_val[1] ELSE ZeroValue

\* mutant: the constant term 1 * G_0 is missing
FreshStemCommitment_NoConstant(stem) ==
    ScalarMul(FrFromLeBytes(stem, StemLen), 1)

\* stem commitment of a stem without leaves: 1 * G_0 + stem * G_1
FreshStemCommitment(stem) ==
    GAdd(SRS(0), ScalarMul(FrFromLeBytes(stem, StemLen), 1))

\* the stem's metadata before the update, or the metadata of a fresh stem
StemMetaOrFresh(db, stem) ==
    LET m == get_stem_meta(db, stem)
    IN  IF m # None
        THEN [C_1 |-> m[1].C_1, hash_c1 |-> m[1].hash_c1,
              C_2 |-> m[1].C_2, hash_c2 |-> m[1].hash_c2,
              stem_commitment |-> m[1].stem_commitment,
              old_hash |-> Some(m[1].hash_stem_commitment)]
        ELSE [C_1 |-> GZero, hash_c1 |-> GroupToField(GZero),
              C_2 |-> GZero, hash_c2 |-> GroupToField(GZero),
              stem_commitment |-> FreshStemCommitment(stem),
              old_hash |-> None]

\* the StemMeta that is stored, with the hash of its stem commitment
StemMetaOf(C_1, hash_c1, C_2, hash_c2, updated_stem_comm) ==
    [C_1 |-> C_1, hash_c1 |-> hash_c1, C_2 |-> C_2, hash_c2 |-> hash_c2,
     stem_commitment |-> updated_stem_comm,
     hash_stem_commitment |-> GroupToField(updated_stem_comm)]

\* position < 128: C_1 changes, the stem commitment moves by the hash delta
\* on G_2
UpdateC1(cur, updated_C_1, new_hash_c1) ==
    StemMetaOf(updated_C_1, new_hash_c1, cur.C_2, cur.hash_c2,
               GAdd(cur.stem_commitment,
                    ScalarMul(FrSub(new_hash_c1, cur.hash_c1), 2)))

\* mutant: the hash delta of the second bank lands on G_2
UpdateC2_OnG2(cur, updated_C_2, new_hash_c2) ==
    StemMetaOf(cur.C_1, cur.hash_c1, updated_C_2, new_hash_c2,
               GAdd(cur.stem_commitment,
                    ScalarMul(FrSub(new_hash_c2, cur.hash_c2), 2)))

\* position >= 128: C_2 changes, the stem commitment moves by the hash delta
\* on G_3
UpdateC2(cur, updated_C_2, new_hash_c2) ==
    StemMetaOf(cur.C_1, cur.hash_c1, updated_C_2, new_hash_c2,
               GAdd(cur.stem_commitment,
                    ScalarMul(FrSub(new_hash_c2, cur.hash_c2), 3)))

UpdatedStemMeta(cur, position, generator_low, generator_high) ==
    IF position < HalfWidth
    THEN UpdateC1(cur, GAdd(GAdd(cur.C_1, generator_low), generator_high),
                  GroupToField(GAdd(GAdd(cur.C_1, generator_low), generator_high)))
    ELSE UpdateC2(cur, GAdd(GAdd(cur.C_2, generator_low), generator_high),
                  GroupToField(GAdd(GAdd(cur.C_2, generator_low), generator_high)))

\* insert_stem and the StemUpdated that is returned
StoreStem(db, stem, cur, meta, depth) ==
    [db |-> insert_stem(db, stem, meta, depth),
     res |-> [old_val |-> cur.old_hash, new_val |-> meta.hash_stem_commitment,
              stem |-> stem]]

update_stem_table(db, update_leaf, depth) ==
    LET new_value == update_leaf.new_value
        old_value == OldValueOrZero(update_leaf.old_val)
        position == update_leaf.key[KeyLen]
        stem == StemOf(update_leaf.key)
    IN  StoreStem(db, stem, StemMetaOrFresh(db, stem),
            UpdatedStemMeta(StemMetaOrFresh(db, stem), position,
                ScalarMul(DeltaLow(new_value[1], old_value[1]),
                          LowIndex(position)),
                ScalarMul(DeltaHigh(new_value[2], old_value[2]),
                          LowIndex(position) + 1)),
            depth)

\* a BranchMeta with the hash of its commitment
BranchMetaOf(updated_comm) ==
    [commitment |-> updated_comm, hash_commitment |-> GroupToField(updated_comm)]

\* hash of the stem before the update, zero when the stem is new
OldStemHash(old_val) == IF old_val # None THEN old_val[1] ELSE FrZero

\* insert_branch of the updated branch, then add_stem_as_branch_child
\* mutant: the stem is referenced from the slot after its own
AttachStem_NextSlot(db, stem, branch_id, branch_index, depth, meta) ==
    [db |-> add_stem_as_branch_child(
                insert_branch(db, branch_id, meta, depth),
                Append(branch_id, (branch_index + 1) % Width), stem, depth),
     ok |-> TRUE, res |-> meta.hash_commitment]

AttachStem(db, stem, branch_id, branch_index, depth, meta) ==
    [db |-> add_stem_as_branch_child(
                insert_branch(db, branch_id, meta, depth),
                Append(branch_id, branch_index), stem, depth),
     ok |-> TRUE, res |-> meta.hash_commitment]

\* ok = FALSE when the unwrap of the branch metadata fails
update_branch_table(db, stem_update, branch_id, branch_index, depth) ==
    LET bm == get_branch_meta(db, branch_id)
        delta == FrSub(stem_update.new_val, OldStemHash(stem_update.old_val))
    IN  IF bm = None THEN [db |-> db, ok |-> FALSE, res |-> FrZero]
        ELSE AttachStem(db, stem_update.stem, branch_id, branch_index, depth,
                 BranchMetaOf(GAdd(bm[1].commitment,
                                   ScalarMul(delta, branch_index))))

----------------------------------------------------------------------------
(* Execution: Trie::process_instructions *)

\* mutant: the child hash captured at planning time is ignored
OldChildHash_Ignored(old_child_value) == FrZero

\* hash of the child branch before the insert, zero when there was none
OldChildHash(old_child_value) ==
    IF old_child_value # None THEN old_child_value[1].hash_commitment
    ELSE FrZero

\* status: "ok" continue, "return" early exit of the insert, "panic" a failed
\* unwrap or assertion
ExecInternalNodeFallThrough(db, ins) ==
    LET new_branch_meta == get_branch_meta(db, ins.child)
        old_parent_branch_metadata == get_branch_meta(db, ins.branch_id)
    IN  IF new_branch_meta = None \/ old_parent_branch_metadata = None
        THEN [db |-> db, status |-> "panic"]
        ELSE
        LET delta == FrSub(new_branch_meta[1].hash_commitment,
                           OldChildHash(ins.old_child_value))
        IN  [db |-> insert_branch(db, ins.branch_id,
                        BranchMetaOf(
                            GAdd(old_parent_branch_metadata[1].commitment,
                                 ScalarMul(delta, ins.branch_child_index))),
                        ins.depth),
             status |-> "ok"]

\* outcome of the instruction after update_branch_table
BranchUpdated(bu) == [db |-> bu.db, status |-> IF bu.ok THEN "ok" ELSE "panic"]

\* UpdateLeaf after update_leaf_table: early exit, or stem and branch tables
UpdateLeafStem(lu, ins) ==
    IF lu.res = None THEN [db |-> lu.db, status |-> "return"]
    ELSE BranchUpdated(
             update_branch_table(
                 update_stem_table(lu.db, lu.res[1], ins.depth).db,
                 update_stem_table(lu.db, lu.res[1], ins.depth).res,
                 ins.branch_id, ins.branch_child_index, ins.depth))

ExecUpdateLeaf(db, ins) ==
    UpdateLeafStem(update_leaf_table(db, ins.key, ins.new_leaf_value, ins.depth),
                   ins)

\* step 3 of ChainInsert: the branches above the bottom one, deepest first;
\* the j-th path is paired with the (j+1)-th index of the chain
\* mutant: the j-th path is paired with the j-th index of the chain
RECURSIVE ChainUp_OwnIndex(_, _, _, _, _)
ChainUp_OwnIndex(db, chain_insert_path, inner_node_paths, j, inner_node_below_val) ==
    IF j = 0 THEN [db |-> db, val |-> inner_node_below_val]
    ELSE ChainUp_OwnIndex(
             insert_branch(db, inner_node_paths[j],
                 BranchMetaOf(ScalarMul(inner_node_below_val,
                                        chain_insert_path[j])),
                 Len(inner_node_paths[j])),
             chain_insert_path, inner_node_paths, j - 1,
             BranchMetaOf(ScalarMul(inner_node_below_val,
                                    chain_insert_path[j])).hash_commitment)

RECURSIVE ChainUp(_, _, _, _, _)
ChainUp(db, chain_insert_path, inner_node_paths, j, inner_node_below_val) ==
    IF j = 0 THEN [db |-> db, val |-> inner_node_below_val]
    ELSE
    LET parent_branch_node == inner_node_paths[j]
        child_path == chain_insert_path[j + 1]
        depth == Len(parent_branch_node)
        meta == BranchMetaOf(ScalarMul(inner_node_below_val, child_path))
    IN  ChainUp(insert_branch(db, parent_branch_node, meta, depth),
                chain_insert_path, inner_node_paths, j - 1,
                meta.hash_commitment)

\* step 4 of ChainInsert: the branch that held the old stem
ChainParent(db, ins, old_stem_value, new_inner_node_value) ==
    LET top_parent == get_branch_meta(db, ins.parent_branch_node)
        delta == FrSub(new_inner_node_value, old_stem_value)
    IN  IF top_parent = None THEN [db |-> db, status |-> "panic"]
        ELSE [db |-> insert_branch(db, ins.parent_branch_node,
                        BranchMetaOf(GAdd(top_parent[1].commitment,
                                          ScalarMul(delta, ins.child_index))),
                        ins.starting_depth),
              status |-> "ok"]

\* steps 3 and 4, after the old stem has been attached to the bottom branch
ChainAbove(ou, old_stem_value, ins, inner_node_paths) ==
    IF ~ou.ok THEN [db |-> ou.db, status |-> "panic"]
    ELSE ChainParent(
             ChainUp(ou.db, ins.chain_insert_path, inner_node_paths,
                     Len(inner_node_paths) - 1, ou.res).db,
             ins, old_stem_value,
             ChainUp(ou.db, ins.chain_insert_path, inner_node_paths,
                     Len(inner_node_paths) - 1, ou.res).val)

\* mutant: the metadata of the old stem is stored again at its new depth
ChainOldStem_Restored(bu, ins, inner_node_paths, old_stem_child) ==
    LET stem_meta_data == get_stem_meta(bu.db, old_stem_child)
        bottom_inner_node_path == inner_node_paths[Len(inner_node_paths)]
    IN  IF ~bu.ok \/ stem_meta_data = None
        THEN [db |-> bu.db, status |-> "panic"]
        ELSE ChainAbove(
                 update_branch_table(
                     [bu.db EXCEPT !.stem =
                         Put(@, old_stem_child,
                             [meta |-> stem_meta_data[1],
                              depth |-> Len(bottom_inner_node_path)])],
                     [old_val |-> None,
                      new_val |-> stem_meta_data[1].hash_stem_commitment,
                      stem |-> old_stem_child],
                     bottom_inner_node_path, ins.old_leaf_index,
                     Len(bottom_inner_node_path)),
                 stem_meta_data[1].hash_stem_commitment, ins, inner_node_paths)

\* step 2b, second half: the old stem becomes a child of the bottom branch
ChainOldStem(bu, ins, inner_node_paths, old_stem_child) ==
    LET stem_meta_data == get_stem_meta(bu.db, old_stem_child)
        bottom_inner_node_path == inner_node_paths[Len(inner_node_paths)]
    IN  IF ~bu.ok \/ stem_meta_data = None
        THEN [db |-> bu.db, status |-> "panic"]
        ELSE ChainAbove(
                 update_branch_table(bu.db,
                     [old_val |-> None,
                      new_val |-> stem_meta_data[1].hash_stem_commitment,
                      stem |-> old_stem_child],
                     bottom_inner_node_path, ins.old_leaf_index,
                     Len(bottom_inner_node_path)),
                 stem_meta_data[1].hash_stem_commitment, ins, inner_node_paths)

\* step 2b, first half: the new leaf goes through the leaf, stem and branch
\* tables against the bottom branch
ChainNewStem(lu, ins, inner_node_paths, old_stem_child) ==
    LET bottom_inner_node_path == inner_node_paths[Len(inner_node_paths)]
        bottom_inode_depth == Len(bottom_inner_node_path)
    IN  IF lu.res = None THEN [db |-> lu.db, status |-> "panic"]
        ELSE ChainOldStem(
                 update_branch_table(
                     update_stem_table(lu.db, lu.res[1], bottom_inode_depth).db,
                     update_stem_table(lu.db, lu.res[1], bottom_inode_depth).res,
                     bottom_inner_node_path, ins.new_leaf_index,
                     bottom_inode_depth),
                 ins, inner_node_paths, old_stem_child)

ExecChainInsert(db, ins) ==
    IF Len(ins.chain_insert_path) = 0 THEN [db |-> db, status |-> "panic"]
    ELSE
    LET inner_node_paths ==
            paths_from_relative(ins.parent_branch_node, ins.chain_insert_path)
        bottom_inner_node_path == inner_node_paths[Len(inner_node_paths)]
        bottom_inode_depth == Len(bottom_inner_node_path)
        old_child == get_branch_child(db, ins.parent_branch_node, ins.child_index)
    IN  IF old_child = None \/ old_child[1].kind # "stem"
        THEN [db |-> db, status |-> "panic"]
        ELSE ChainNewStem(
                 update_leaf_table(
                     insert_branch(db, bottom_inner_node_path, BranchMetaZero,
                                   bottom_inode_depth),
                     ins.new_leaf_key, ins.new_leaf_value, bottom_inode_depth),
                 ins, inner_node_paths, old_child[1].stem)

ExecIns(db, ins) ==
    IF ins.op = "InternalNodeFallThrough" THEN ExecInternalNodeFallThrough(db, ins)
    ELSE IF ins.op = "UpdateLeaf" THEN ExecUpdateLeaf(db, ins)
    ELSE ExecChainInsert(db, ins)

\* instructions are processed from the last to the first; an instruction
\* that does not end "ok" ends the processing
RECURSIVE ProcessFrom(_, _, _)
ProcessNext(r, instructions, i) ==
    IF r.status = "ok" THEN ProcessFrom(r.db, instructions, i) ELSE r

ProcessFrom(db, instructions, i) ==
    IF i = 0 THEN [db |-> db, status |-> "ok"]
    ELSE ProcessNext(ExecIns(db, instructions[i]), instructions, i - 1)

\* mutant: the instructions are processed from the first to the last
process_instructions_Forward(db, instructions) ==
    ProcessFrom(db,
                [i \in 1 .. Len(instructions) |->
                    instructions[Len(instructions) + 1 - i]],
                Len(instructions))

process_instructions(db, instructions) ==
    ProcessFrom(db, instructions, Len(instructions))

\* Trie::insert
\* the second line of Trie::insert, not reached when the first panicked
ExecutePlan(db, plan) ==
    IF plan.status = "panic" THEN [db |-> db, status |-> "panic"]
    ELSE process_instructions(db, plan.instructions)

insert(db, key, value) ==
    ExecutePlan(db, create_insert_instructions(db, key, value))

\* Trie::get
get(db, key) == get_leaf(db, key)

\* Trie::compute_root; None stands for the failed unwrap
compute_root(db) ==
    LET root_node == get_branch_meta(db, <<>>)
    IN  IF root_node = None THEN None ELSE Some(root_node[1].hash_commitment)

\* mutant: the root branch is not created
TrieNew_NoRoot(db) == db

\* Trie::new
TrieNew(db) ==
    IF root_is_missing(db) THEN insert_branch(db, <<>>, BranchMetaZero, 0) ELSE db

----------------------------------------------------------------------------
(* Arena-based trie: trie/verkle/verkle_insert.rs *)

InternalNode(commitment) == [kind |-> "internal", commitment |-> commitment]
LeafExtensionNode(key, value) == [kind |-> "leaf_ext", key |-> key, value |-> value]
ValueNode(value) == [kind |-> "value", value |-> value]
HashedNode == [kind |-> "hashed"]

root_index == 1

\* NodeSlotMap::index appends the node; its index is the new length
Index(nodes, node) == Append(nodes, node)

\* ChildMap::child and ChildMap::add_child
Child(children, parent, index) ==
    IF <<parent, index>> \in DOMAIN children
    THEN Some(children[<<parent, index>>]) ELSE None

add_child(children, parent, path_index, data_index) ==
    Put(children, <<parent, path_index>>, data_index)

ArenaResetComm(pointer) == [op |-> "ResetComm", pointer |-> pointer]

ArenaUpdateInternalChild(pointer, path_index, data_index) ==
    [op |-> "UpdateInternalChild", pointer |-> pointer,
     path_index |-> path_index, data_index |-> data_index]

ArenaUpdateLeafExt(node_index, path_index, value) ==
    [op |-> "UpdateLeafExt", node_index |-> node_index,
     path_index |-> path_index, value |-> value]

\* what find_insert_position leaves: the nodes of the arena, the
\* instructions, and whether it returned or panicked
Planned(nodes, instructions) ==
    [nodes |-> nodes, instructions |-> instructions, status |-> "ok"]

PlanningPanics(nodes, instructions) ==
    [nodes |-> nodes, instructions |-> instructions, status |-> "panic"]

\* the loop over relative_shared_path: one new internal node per index
RECURSIVE ChainDown(_, _, _, _, _)
ChainDown(nodes, instructions, current_node_index, relative_shared_path, i) ==
    IF i > Len(relative_shared_path)
    THEN [nodes |-> nodes, instructions |-> instructions,
          current_node_index |-> current_node_index]
    ELSE ChainDown(Index(nodes, InternalNode(None)),
                   Append(instructions,
                          ArenaUpdateInternalChild(current_node_index,
                                                   relative_shared_path[i],
                                                   Len(nodes) + 1)),
                   Len(nodes) + 1, relative_shared_path, i + 1)

\* the last node of the chain points at the two leaves
ChainLeaves(chain, index_leaf_a, leaf_node, p_diff_a, p_diff_b) ==
    Planned(Index(chain.nodes, leaf_node),
            chain.instructions \o
                <<ArenaUpdateInternalChild(chain.current_node_index, p_diff_a,
                                           index_leaf_a),
                  ArenaUpdateInternalChild(chain.current_node_index, p_diff_b,
                                           Len(chain.nodes) + 1)>>)

\* the child is a leaf extension of another key that differs before the last
\* path index.  The slice shared_path[paths_passed..] panics when the leaf
\* extension shares fewer than paths_passed indices with the key
PlanChain(nodes, instructions, current_node_index, index, child_data_index, key, value, pd, paths_passed) ==
    IF paths_passed > Len(pd.shared) \/ pd.diff_a = None \/ pd.diff_b = None
    THEN PlanningPanics(nodes, instructions)
    ELSE ChainLeaves(
             ChainDown(Index(nodes, InternalNode(None)),
                       Append(instructions,
                              ArenaUpdateInternalChild(current_node_index, index,
                                                       Len(nodes) + 1)),
                       Len(nodes) + 1,
                       SubSeq(pd.shared, paths_passed + 1, Len(pd.shared)), 1),
             child_data_index, LeafExtensionNode(key, value),
             pd.diff_a[1], pd.diff_b[1])

\* mutant: an update of the key of the leaf extension is planned as UpdateLeaf
PlanLeafExt_UpdateLeaf(nodes, instructions, current_node_index, index, child_data_index, key, value, pd, paths_passed) ==
    IF Len(pd.shared) = ArenaPaths - 1
    THEN IF pd.diff_b = None THEN PlanningPanics(nodes, instructions)
         ELSE Planned(nodes,
                      Append(instructions,
                             ArenaUpdateLeafExt(child_data_index, pd.diff_b[1],
                                                value)))
    ELSE IF Len(pd.shared) = ArenaPaths
    THEN Planned(nodes,
                 Append(instructions,
                        [op |-> "UpdateLeaf", node_index |-> child_data_index,
                         leaf_node |-> LeafExtensionNode(key, value)]))
    ELSE PlanChain(nodes, instructions, current_node_index, index,
                   child_data_index, key, value, pd, paths_passed)

\* the child is a leaf extension
PlanLeafExt(nodes, instructions, current_node_index, index, child_data_index, key, value, pd, paths_passed) ==
    IF Len(pd.shared) = ArenaPaths - 1
    THEN IF pd.diff_b = None THEN PlanningPanics(nodes, instructions)
         ELSE Planned(nodes,
                      Append(instructions,
                             ArenaUpdateLeafExt(child_data_index, pd.diff_b[1],
                                                value)))
    ELSE IF Len(pd.shared) = ArenaPaths
    THEN Planned(nodes,
                 Append(instructions,
                        ArenaUpdateLeafExt(child_data_index,
                                           pd.shared[Len(pd.shared)], value)))
    ELSE PlanChain(nodes, instructions, current_node_index, index,
                   child_data_index, key, value, pd, paths_passed)

\* one turn of the loop, entered with paths_passed already counted and the
\* ResetComm of the current node already pushed
RECURSIVE FindFrom(_, _, _, _, _, _, _)
FindFrom(nodes, children, key, value, current_node_index, paths_passed, instructions) ==
    IF paths_passed > Len(key) THEN PlanningPanics(nodes, instructions)
    ELSE
    LET index == key[paths_passed]
        child_data_index == Child(children, current_node_index, index)
    IN  IF child_data_index = None
        THEN Planned(Index(nodes, LeafExtensionNode(key, value)),
                     Append(instructions,
                            ArenaUpdateInternalChild(current_node_index, index,
                                                     Len(nodes) + 1)))
        ELSE IF nodes[child_data_index[1]].kind = "hashed"
        THEN PlanningPanics(nodes, instructions)
        ELSE IF nodes[child_data_index[1]].kind = "internal"
        THEN FindFrom(nodes, children, key, value, child_data_index[1],
                      paths_passed + 1,
                      Append(instructions, ArenaResetComm(child_data_index[1])))
        ELSE IF nodes[child_data_index[1]].kind # "leaf_ext"
        THEN PlanningPanics(nodes, instructions)
        ELSE PlanLeafExt(nodes, instructions, current_node_index, index,
                         child_data_index[1], key, value,
                         path_difference(nodes[child_data_index[1]].key, key),
                         paths_passed)

find_insert_position(nodes, children, key, value) ==
    FindFrom(nodes, children, key, value, root_index, 1,
             <<ArenaResetComm(root_index)>>)

\* mutant: ResetComm leaves the cached commitment
ArenaExecIns_KeepComm(a, ins) ==
    IF ins.op = "UpdateLeaf" THEN [a EXCEPT !.status = "todo"]
    ELSE IF ins.op = "UpdateLeafExt"
    THEN [a EXCEPT !.nodes = Index(@, ValueNode(ins.value)),
                   !.children = add_child(@, ins.node_index, ins.path_index,
                                          Len(a.nodes) + 1)]
    ELSE IF a.nodes[ins.pointer].kind # "internal"
    THEN [a EXCEPT !.status = "panic"]
    ELSE IF ins.op = "UpdateInternalChild"
    THEN [a EXCEPT !.nodes[ins.pointer].commitment = None,
                   !.children = add_child(@, ins.pointer, ins.path_index,
                                          ins.data_index)]
    ELSE a

\* one arm of the match in VerkleTrie::process_instructions
ArenaExecIns(a, ins) ==
    IF ins.op = "UpdateLeaf" THEN [a EXCEPT !.status = "todo"]
    ELSE IF ins.op = "UpdateLeafExt"
    THEN [a EXCEPT !.nodes = Index(@, ValueNode(ins.value)),
                   !.children = add_child(@, ins.node_index, ins.path_index,
                                          Len(a.nodes) + 1)]
    ELSE IF a.nodes[ins.pointer].kind # "internal"
    THEN [a EXCEPT !.status = "panic"]
    ELSE IF ins.op = "UpdateInternalChild"
    THEN [a EXCEPT !.nodes[ins.pointer].commitment = None,
                   !.children = add_child(@, ins.pointer, ins.path_index,
                                          ins.data_index)]
    ELSE [a EXCEPT !.nodes[ins.pointer].commitment = None]

\* the instructions are processed from the first to the last
RECURSIVE ArenaProcessFrom(_, _, _)
ArenaProcessFrom(a, instructions, i) ==
    IF i > Len(instructions) \/ a.status # "ok" THEN a
    ELSE ArenaProcessFrom(ArenaExecIns(a, instructions[i]), instructions, i + 1)

arena_process_instructions(a, instructions) ==
    ArenaProcessFrom(a, instructions, 1)

\* mutant: the instructions gathered so far are processed before the panic
AbortInsert_AfterResets(a, plan) ==
    [arena_process_instructions(a, plan.instructions) EXCEPT !.status = "panic"]

\* the panic of find_insert_position leaves _insert before
\* process_instructions; the arena keeps what planning indexed
AbortInsert(a, plan) == [a EXCEPT !.nodes = plan.nodes, !.status = "panic"]

\* _insert after find_insert_position
InsertPlanned(a, plan) ==
    IF plan.status = "panic" THEN AbortInsert(a, plan)
    ELSE arena_process_instructions([a EXCEPT !.nodes = plan.nodes],
                                    plan.instructions)

\* VerkleTrie::_insert
ArenaInsertKey(a, key, value) ==
    InsertPlanned(a, find_insert_position(a.nodes, a.children, key, value))

\* a new arena: the root is an internal node without children.  count and
\* last record the inserts issued
ArenaNew ==
    [nodes |-> <<InternalNode(None)>>, children |-> <<>>, status |-> "ok",
     count |-> 0, last |-> None]

\* an arena loaded with the internal nodes along a path, their commitments
\* cached, and a hashed node below the last of them
ArenaLoaded(path) ==
    [nodes |-> [i \in 1 .. Len(path) |-> InternalNode(Some("cached"))]
                   \o <<HashedNode>>,
     children |-> [c \in {<<i, path[i]>> : i \in 1 .. Len(path)} |-> c[1] + 1],
     status |-> "ok", count |-> 0, last |-> None]

----------------------------------------------------------------------------
(* State machine *)

VARIABLES
    storage,    \* the trie's storage: leaf, stem and branch tables
    panicked,   \* an insert hit a failed unwrap or assertion
    expected,   \* key -> value of the last insert(key, value) issued
    count,      \* number of inserts issued
    dup,        \* some key has been inserted more than once
    last,       \* Some of the last insert issued: key, value, get(key) before it
    pending,    \* Some of the insert that is planned and not yet executed
    call,       \* Some of the call of a helper function: its name and inputs
    result,     \* Some of what the call returned
    arena,      \* the arena-based trie: its nodes, its child map, its status
    batch,      \* Some of the WriteBatch being filled: its keys and its values
    puts,       \* the batch_put calls made on the batch, in call order
    backend,    \* the jsbatch_put calls the backend has received, in order
    opener      \* Some of a run of open_multipoint_lagrange

vars ==
    <<storage, panicked, expected, count, dup, last, pending, call, result,
      arena, batch, puts, backend, opener>>

\* no helper function is being called
NoCall == call = None /\ result = None

\* no write batch exists and the backend has received nothing
NoBatch == batch = None /\ puts = <<>> /\ backend = <<>>

\* the opener is not running
NoOpener == opener = None

\* the trie after Trie::new over an empty store
TrieInit ==
    /\ storage = TrieNew(EmptyDb)
    /\ panicked = FALSE
    /\ expected = <<>>
    /\ count = 0
    /\ dup = FALSE
    /\ last = None
    /\ pending = None

Init ==
    /\ TrieInit
    /\ NoCall
    /\ arena = ArenaNew
    /\ NoBatch
    /\ NoOpener

\* the storage and the failure left by an insert
Outcome(r) ==
    /\ storage' = r.db
    /\ panicked' = (r.status = "panic")

Insert(key, value) ==
    /\ count < MaxInserts
    /\ ~panicked
    /\ Outcome(insert(storage, key, value))
    /\ expected' = Put(expected, key, value)
    /\ count' = count + 1
    /\ dup' = (dup \/ key \in DOMAIN expected)
    /\ last' = Some([key |-> key, value |-> value, old |-> get(storage, key)])
    /\ UNCHANGED <<pending, call, result, arena,
                   batch, puts, backend, opener>>

Next == \E key \in Keys, value \in Values : Insert(key, value)

Spec == Init /\ [][Next]_vars

----------------------------------------------------------------------------
(* The two phases of an insert as separate steps, over a store that may have
   lost the record of a stem *)

\* mutant: planning already executes the instructions
AfterPlanning_Executes(db, instructions) ==
    process_instructions(db, instructions).db

\* the storage after create_insert_instructions, which borrows the trie
\* immutably and calls get_branch_child and get_leaf only
AfterPlanning(db, instructions) == db

\* the first line of Trie::insert: the instructions are kept for the second
\* line, or the insert ends with the panic of planning
PlanInstructions(key, value, plan) ==
    /\ pending' = IF plan.status = "panic" THEN None
                  ELSE Some([key |-> key, value |-> value,
                             instructions |-> plan.instructions])
    /\ panicked' = (plan.status = "panic")
    /\ storage' = AfterPlanning(storage, plan.instructions)

Plan(key, value) ==
    /\ pending = None
    /\ count < MaxPhasedInserts
    /\ ~panicked
    /\ PlanInstructions(key, value,
                        create_insert_instructions(storage, key, value))
    /\ UNCHANGED <<expected, count, dup, last, call, result, arena,
                   batch, puts, backend, opener>>

\* the second line of Trie::insert
Execute ==
    /\ pending # None
    /\ Outcome(process_instructions(storage, pending[1].instructions))
    /\ pending' = None
    /\ expected' = Put(expected, pending[1].key, pending[1].value)
    /\ count' = count + 1
    /\ dup' = (dup \/ pending[1].key \in DOMAIN expected)
    /\ last' = Some([key |-> pending[1].key, value |-> pending[1].value,
                     old |-> get(storage, pending[1].key)])
    /\ UNCHANGED <<call, result, arena,
                   batch, puts, backend, opener>>

\* every stem referenced from the branch table has its record
NoStemLost(db) ==
    \A slot \in DOMAIN db.branch :
        db.branch[slot].kind = "stem" => db.branch[slot].stem \in DOMAIN db.stem

\* the store no longer returns the record of a stem: get_stem_meta fails
LoseStem(stem) ==
    /\ pending = None
    /\ ~panicked
    /\ count < MaxPhasedInserts
    /\ stem \in DOMAIN storage.stem
    /\ NoStemLost(storage)
    /\ storage' = [storage EXCEPT
                      !.stem = [x \in (DOMAIN @) \ {stem} |-> @[x]]]
    /\ UNCHANGED <<panicked, expected, count, dup, last, pending, call, result,
                   arena,
                   batch, puts, backend, opener>>

NextPhased ==
    \/ \E key \in Keys, value \in Values : Plan(key, value)
    \/ Execute
    \/ \E key \in Keys : LoseStem(StemOf(key))

SpecPhased == Init /\ [][NextPhased]_vars

----------------------------------------------------------------------------
(* Inserts into the arena-based trie *)

\* keys of ArenaPaths path indices: two that differ in the last index only,
\* and one diverging from them at each depth
ArenaUnit(i) == [j \in 1 .. ArenaPaths |-> IF j = i \/ j = ArenaPaths THEN 1 ELSE 0]
ArenaKeys == {ArenaUnit(i) : i \in 0 .. (ArenaPaths - 1)}
                 \cup {[j \in 1 .. ArenaPaths |-> 0]}
ArenaValues == {1, 2}

\* paths of the hashed node of a loaded arena
LoadedPaths == {<<1>>, <<0, 1>>}

InitArena ==
    /\ TrieInit
    /\ NoCall
    /\ arena \in {ArenaNew} \cup {ArenaLoaded(path) : path \in LoadedPaths}
    /\ NoBatch
    /\ NoOpener

ArenaInsert(key, value) ==
    /\ arena.status = "ok"
    /\ arena.count < MaxArenaInserts
    /\ arena' = [ArenaInsertKey(arena, key, value) EXCEPT
                    !.count = arena.count + 1,
                    !.last = Some([key |-> key, value |-> value])]
    /\ UNCHANGED <<storage, panicked, expected, count, dup, last, pending, call,
                   result,
                   batch, puts, backend, opener>>

\* the commitments of the internal nodes are computed and cached
CacheCommitments ==
    /\ arena.status = "ok"
    /\ \E i \in 1 .. Len(arena.nodes) :
          arena.nodes[i].kind = "internal" /\ arena.nodes[i].commitment = None
    /\ arena' = [arena EXCEPT
                    !.nodes = [i \in 1 .. Len(@) |->
                                  IF @[i].kind = "internal"
                                  THEN InternalNode(Some("cached")) ELSE @[i]]]
    /\ UNCHANGED <<storage, panicked, expected, count, dup, last, pending, call,
                   result,
                   batch, puts, backend, opener>>

NextArena ==
    \/ \E key \in ArenaKeys, value \in ArenaValues : ArenaInsert(key, value)
    \/ CacheCommitments

SpecArena == InitArena /\ [][NextArena]_vars

\* the walk along the key from node current meets a hashed node
RECURSIVE WalkMeetsHashed(_, _, _, _)
WalkMeetsHashed(a, key, current, i) ==
    /\ i <= Len(key)
    /\ Child(a.children, current, key[i]) # None
    /\ LET child == a.nodes[Child(a.children, current, key[i])[1]]
       IN  \/ child.kind = "hashed"
           \/ /\ child.kind = "internal"
              /\ WalkMeetsHashed(a, key,
                                 Child(a.children, current, key[i])[1], i + 1)

----------------------------------------------------------------------------
(* KZG10 public parameters: kzg10/srs.rs *)

\* the scalar field E::Fr and a generator of its multiplicative group
ScalarModulus == 17
ScalarGenerator == 3

RECURSIVE Pow(_, _)
Pow(x, n) == IF n = 0 THEN 1 ELSE (x * Pow(x, n - 1)) % ScalarModulus

\* Field::inverse
Inverse(x) == CHOOSE y \in 0 .. (ScalarModulus - 1) : (x * y) % ScalarModulus = 1

RECURSIVE NextPowerOfTwo(_, _)
NextPowerOfTwo(n, p) == IF p >= n THEN p ELSE NextPowerOfTwo(n, 2 * p)

\* GeneralEvaluationDomain::new: the domain of the next power of two, which
\* exists only up to the two-adicity of the scalar field
DomainNew(num_coeffs) ==
    IF NextPowerOfTwo(num_coeffs, 1) <= 2 ^ TwoAdicity
    THEN Some(NextPowerOfTwo(num_coeffs, 1)) ELSE None

\* mutant: the powers stop before beta^max_degree
powers_of_Exclusive(beta, max_degree) ==
    [i \in 0 .. max_degree - 1 |-> Pow(beta, i)]

\* util::powers_of: beta^0 .. beta^max_degree
powers_of(beta, max_degree) == [i \in 0 .. max_degree |-> Pow(beta, i)]

\* size of the Lagrange SRS, None when the unwrap of the domain fails
compute_lagrange_srs(max_degree) == DomainNew(max_degree)

\* "Cannot commit to constants"
DegreeIsZero(max_degree) == max_degree < 1

setup_from_secret(max_degree, beta) ==
    IF DegreeIsZero(max_degree) THEN [status |-> "DegreeIsZero"]
    ELSE IF compute_lagrange_srs(max_degree) = None THEN [status |-> "panic"]
    ELSE [status |-> "Ok",
          powers_of_g |-> powers_of(beta, max_degree),
          lagrange_size |-> compute_lagrange_srs(max_degree)[1]]

\* beta is the scalar drawn from the random number generator
setup(max_degree, beta) ==
    IF DegreeIsZero(max_degree) THEN [status |-> "DegreeIsZero"]
    ELSE setup_from_secret(max_degree, beta)

----------------------------------------------------------------------------
(* Lagrange basis: kzg10/lagrange/mod.rs.  Slices are functions on 0 .. D-1 *)

DomainSize == 2 ^ LogDomain
DomainIdx == 0 .. (DomainSize - 1)

\* the DomainSize-th root of unity and the elements of the domain
omega == Pow(ScalarGenerator, (ScalarModulus - 1) \div DomainSize)
DomainElements == [k \in DomainIdx |-> Pow(omega, k)]

\* the table of inverses: 1 / (omega^k - 1), and the table of the opposite
\* sign 1 / (1 - omega^k); the entry 0 is unused
InvOmegaMinusOne ==
    [k \in DomainIdx |->
        IF k = 0 THEN 0 ELSE Inverse((DomainElements[k] - 1) % ScalarModulus)]
InvOneMinusOmega ==
    [k \in DomainIdx |->
        IF k = 0 THEN 0 ELSE Inverse((1 - DomainElements[k]) % ScalarModulus)]

\* 2^n modulo m, by squaring
RECURSIVE TwoPowMod(_, _)
TwoPowMod(n, m) ==
    IF n = 0 THEN 1 % m
    ELSE IF n % 2 = 0
    THEN (TwoPowMod(n \div 2, m) * TwoPowMod(n \div 2, m)) % m
    ELSE (2 * TwoPowMod(n - 1, m)) % m

\* mutant: the subtraction saturates at zero
WrappingSubRemEuclid_Saturating(a, b, rhs) ==
    IF a < b THEN 0 ELSE (a - b) % rhs

\* mutant: the subtraction wraps around one less than the machine word
WrappingSubRemEuclid_OddWord(a, b, rhs) ==
    IF a >= b THEN (a - b) % rhs
    ELSE (TwoPowMod(UsizeBits, rhs) - 1 - (b - a)) % rhs

\* a.wrapping_sub(b).rem_euclid(rhs) over usize: a difference below zero is
\* 2^UsizeBits - (b - a), of which the residue is taken
WrappingSubRemEuclid(a, b, rhs) ==
    IF a >= b THEN (a - b) % rhs
    ELSE (TwoPowMod(UsizeBits, rhs) - (b - a)) % rhs

\* usize subtraction: with overflow checks (the debug profile) a negative
\* difference panics, without them (the release profile) it wraps
SubOverflows(a, b, overflow_checks) == overflow_checks /\ a < b

\* Evaluations::from_vec_and_domain: the values and the size of their domain
from_vec_and_domain(evals, domain) ==
    [status |-> "ok", evals |-> evals, domain |-> domain]

\* the call panicked and gave no basis
NoBasis == [status |-> "panic", evals |-> <<>>, domain |-> 0]

\* From<Vec<Fr>> for LagrangeBasis: the domain is
\* GeneralEvaluationDomain::new(evals.len()).unwrap()
LagrangeBasisFrom(evals) ==
    IF DomainNew(Cardinality(DOMAIN evals)) = None THEN NoBasis
    ELSE from_vec_and_domain(evals, DomainNew(Cardinality(DOMAIN evals))[1])

\* the quotient at i # index
QuotAt(i, index, f_x, inv, domain_elements, domain_size) ==
    ((f_x[i] - f_x[index])
        * domain_elements[WrappingSubRemEuclid(domain_size, i, domain_size)]
        * inv[WrappingSubRemEuclid(index, i, domain_size)]) % ScalarModulus

\* the value at index: the sum over i < n, i # index
RECURSIVE QuotIndex(_, _, _, _, _, _)
QuotIndex(n, index, f_x, inv, domain_elements, domain_size) ==
    IF n = 0 THEN 0
    ELSE (QuotIndex(n - 1, index, f_x, inv, domain_elements, domain_size)
          + (IF n - 1 = index THEN 0
             ELSE (0 - domain_elements[WrappingSubRemEuclid(n - 1, index,
                                                          domain_size)])
                  * QuotAt(n - 1, index, f_x, inv, domain_elements, domain_size)))
         % ScalarModulus

\* the panics of the division: f_x[index] out of bounds; for an i # index
\* the remainder by an empty domain, the overflow of domain_size - i, or an
\* index past the end of inv; no domain of the size of domain_elements
DivisionPanics(index, f_x, inv, domain_size, overflow_checks) ==
    \/ index \notin DOMAIN f_x
    \/ \E i \in (DOMAIN f_x) \ {index} :
          \/ domain_size = 0
          \/ SubOverflows(domain_size, i, overflow_checks)
          \/ /\ domain_size > 0
             /\ WrappingSubRemEuclid(index, i, domain_size) \notin DOMAIN inv
    \/ DomainNew(domain_size) = None

\* one value for every value of f_x, over the domain of the size of
\* domain_elements
divide_by_linear_vanishing(index, f_x, inv, domain_elements, overflow_checks) ==
    LET domain_size == Cardinality(DOMAIN domain_elements)
    IN  IF f_x.status = "panic" THEN NoBasis
        ELSE IF DivisionPanics(index, f_x.evals, inv, domain_size,
                               overflow_checks)
        THEN NoBasis
        ELSE from_vec_and_domain(
                 [i \in DOMAIN f_x.evals |->
                     IF i = index
                     THEN QuotIndex(Cardinality(DOMAIN f_x.evals), index,
                                    f_x.evals, inv, domain_elements,
                                    domain_size)
                     ELSE QuotAt(i, index, f_x.evals, inv, domain_elements,
                                 domain_size)],
                 DomainNew(domain_size)[1])

----------------------------------------------------------------------------
(* Calls of the helper functions on inputs drawn from bounded sets *)

Bits == {0, 1}

\* the sequences over S of length n, and of length at most n
SeqsOfLen(S, n) == [1 .. n -> S]
SeqsUpTo(S, n) == UNION {SeqsOfLen(S, m) : m \in 0 .. n}

MaxDegree == 2 ^ TwoAdicity + 2

Evals == {0, 1, 5}

Calls ==
    {[fn |-> "paths_from_relative", parent_path |-> a, relative_paths |-> b] :
        a \in SeqsUpTo(Bits, 2), b \in SeqsUpTo(Bits, MaxRel)}
    \cup {[fn |-> "path_difference", a |-> a, b |-> b] :
        a \in SeqsOfLen(Bits, StemLen), b \in SeqsOfLen(Bits, StemLen)}
    \cup {[fn |-> f, max_degree |-> d, beta |-> b] :
        f \in {"setup", "setup_from_secret"}, d \in 0 .. MaxDegree, b \in {2, 3}}
    \cup {[fn |-> "divide_by_linear_vanishing", index |-> i, f_x |-> f,
           inv |-> t] :
        i \in DomainIdx, f \in [DomainIdx -> Evals],
        t \in {InvOmegaMinusOne, InvOneMinusOmega}}
    \cup {[fn |-> "powers_of", x |-> x, degree |-> d] :
        x \in 0 .. ScalarModulus - 1, d \in 0 .. MaxDegree}

InitCalls ==
    /\ TrieInit
    /\ call \in {Some(c) : c \in Calls}
    /\ result = None
    /\ arena = ArenaNew
    /\ NoBatch
    /\ NoOpener

\* a call of f that has not returned
Calling(f) == call # None /\ call[1].fn = f /\ result = None

\* assert!(relative_paths.len() > 0), then the paths
PathsFromRelativeOrPanic(parent_path, relative_paths) ==
    IF Len(relative_paths) > 0
    THEN [status |-> "ok",
          paths |-> paths_from_relative(parent_path, relative_paths)]
    ELSE [status |-> "panic"]

CallPathsFromRelative ==
    /\ Calling("paths_from_relative")
    /\ result' = Some(PathsFromRelativeOrPanic(call[1].parent_path,
                                               call[1].relative_paths))
    /\ UNCHANGED <<storage, panicked, expected, count, dup, last, pending, call,
                   arena,
                   batch, puts, backend, opener>>

CallPathDifference ==
    /\ Calling("path_difference")
    /\ result' = Some(path_difference(call[1].a, call[1].b))
    /\ UNCHANGED <<storage, panicked, expected, count, dup, last, pending, call,
                   arena,
                   batch, puts, backend, opener>>

CallSetup ==
    /\ Calling("setup")
    /\ result' = Some(setup(call[1].max_degree, call[1].beta))
    /\ UNCHANGED <<storage, panicked, expected, count, dup, last, pending, call,
                   arena,
                   batch, puts, backend, opener>>

CallSetupFromSecret ==
    /\ Calling("setup_from_secret")
    /\ result' = Some(setup_from_secret(call[1].max_degree, call[1].beta))
    /\ UNCHANGED <<storage, panicked, expected, count, dup, last, pending, call,
                   arena,
                   batch, puts, backend, opener>>

\* the basis is built from the vector of values; the build profile decides
\* whether the subtractions are checked
CallDivideByLinearVanishing ==
    /\ Calling("divide_by_linear_vanishing")
    /\ \E overflow_checks \in BOOLEAN :
          result' = Some(divide_by_linear_vanishing(
                            call[1].index, LagrangeBasisFrom(call[1].f_x),
                            call[1].inv, DomainElements, overflow_checks))
    /\ UNCHANGED <<storage, panicked, expected, count, dup, last, pending, call,
                   arena,
                   batch, puts, backend, opener>>

CallPowersOf ==
    /\ Calling("powers_of")
    /\ result' = Some(powers_of(call[1].x, call[1].degree))
    /\ UNCHANGED <<storage, panicked, expected, count, dup, last, pending, call,
                   arena, batch, puts, backend, opener>>

NextCalls ==
    \/ CallPowersOf
    \/ CallDivideByLinearVanishing
    \/ CallPathsFromRelative
    \/ CallPathDifference
    \/ CallSetup
    \/ CallSetupFromSecret

SpecCalls == InitCalls /\ [][NextCalls]_vars

\* the call of f has returned
Returned(f) == call # None /\ call[1].fn = f /\ result # None

----------------------------------------------------------------------------
(* The write batch of the JS key-value store *)

MaxBatch == 3
MaxFlushes == 1

BatchKeys == {<<0>>, <<1, 2>>}
BatchVals == {<<>>, <<7>>}

\* WriteBatch::new
WriteBatchNew == [keys |-> <<>>, values |-> <<>>]

\* WriteBatch::batch_put
batch_put(b, key, val) ==
    [keys |-> Append(b.keys, key), values |-> Append(b.values, val)]

\* js_sys::Uint8Array::from(&bytes[..]): a JS array holding a copy of the bytes
Uint8ArrayFrom(bytes) == [uint8array |-> bytes]

\* the call jsbatch_put(keys, vals)
jsbatch_put(keys, vals) == [fn |-> "jsbatch_put", keys |-> keys, vals |-> vals]

\* mutant: one jsbatch_put per buffered key
flush_PutByPut(b) ==
    [i \in 1 .. Len(b.keys) |->
        jsbatch_put(<<Uint8ArrayFrom(b.keys[i])>>,
                    <<Uint8ArrayFrom(b.values[i])>>)]

\* BatchDB::flush: the calls it makes on the backend
flush(b) ==
    <<jsbatch_put([i \in 1 .. Len(b.keys) |-> Uint8ArrayFrom(b.keys[i])],
                  [i \in 1 .. Len(b.values) |-> Uint8ArrayFrom(b.values[i])])>>

BatchNew ==
    /\ batch = None
    /\ Len(backend) < MaxFlushes
    /\ batch' = Some(WriteBatchNew)
    /\ puts' = <<>>
    /\ UNCHANGED <<storage, panicked, expected, count, dup, last, pending, call,
                   result, arena, backend, opener>>

BatchPut(key, val) ==
    /\ batch # None
    /\ Len(puts) < MaxBatch
    /\ batch' = Some(batch_put(batch[1], key, val))
    /\ puts' = Append(puts, <<key, val>>)
    /\ UNCHANGED <<storage, panicked, expected, count, dup, last, pending, call,
                   result, arena, backend, opener>>

\* flush takes the batch by value: no batch is left
Flush ==
    /\ batch # None
    /\ backend' = backend \o flush(batch[1])
    /\ batch' = None
    /\ UNCHANGED <<storage, panicked, expected, count, dup, last, pending, call,
                   result, arena, puts, opener>>

NextBatch ==
    \/ BatchNew
    \/ \E key \in BatchKeys, val \in BatchVals : BatchPut(key, val)
    \/ Flush

SpecBatch == Init /\ [][NextBatch]_vars

----------------------------------------------------------------------------
(* The multipoint opener: kzg10/commit_key_lag/schemes/multi_point.rs.
   Vectors of polynomials, points and evaluations are sequences; a
   polynomial in Lagrange form is a function on 0 .. D-1 *)

MaxPolys == 3

MinOf(a, b) == IF a <= b THEN a ELSE b

\* LagrangeCommitter::commit_lagrange: a binding commitment to the values
commit_lagrange(values) == [commitment |-> values]

\* CommitKeyLagrange::compute_inv: the table inv[k] = 1 / (omega^k - 1) for
\* k in [1, D), entry 0 unused
compute_inv(domain_elements) ==
    [k \in DOMAIN domain_elements |->
        IF k = 0 THEN 0
        ELSE Inverse((domain_elements[k] - 1) % ScalarModulus)]

\* LagrangeBasis::zero: as many zeros as the domain that
\* GeneralEvaluationDomain::new(num_points).unwrap() gives has elements
LagrangeBasisZero(num_points) ==
    IF DomainNew(num_points) = None THEN NoBasis
    ELSE from_vec_and_domain(
             [i \in 0 .. (DomainNew(num_points)[1] - 1) |-> 0],
             DomainNew(num_points)[1])

\* LagrangeBasis::add_scalar
add_scalar(lb, element) ==
    IF lb.status = "panic" THEN NoBasis
    ELSE from_vec_and_domain(
             [i \in DOMAIN lb.evals |-> (lb.evals[i] + element) % ScalarModulus],
             lb.domain)

\* Mul<&Fr> for LagrangeBasis
LagrangeBasisMul(lb, rhs) ==
    IF lb.status = "panic" THEN NoBasis
    ELSE from_vec_and_domain(
             [i \in DOMAIN lb.evals |-> (lb.evals[i] * rhs) % ScalarModulus],
             lb.domain)

\* mutant: the sum is rounded down to an even number
LagrangeBasisAdd_Rounded(lhs, rhs) ==
    IF lhs.status = "panic" \/ rhs.status = "panic" THEN NoBasis
    ELSE from_vec_and_domain(
             [i \in DOMAIN lhs.evals |->
                 IF i \in DOMAIN rhs.evals
                 THEN (((lhs.evals[i] + rhs.evals[i]) % ScalarModulus) \div 2) * 2
                 ELSE lhs.evals[i]],
             lhs.domain)

\* Add for LagrangeBasis: the values and the domain of the left operand, the
\* zip stops at the shorter vector
LagrangeBasisAdd(lhs, rhs) ==
    IF lhs.status = "panic" \/ rhs.status = "panic" THEN NoBasis
    ELSE from_vec_and_domain(
             [i \in DOMAIN lhs.evals |->
                 IF i \in DOMAIN rhs.evals
                 THEN (lhs.evals[i] + rhs.evals[i]) % ScalarModulus
                 ELSE lhs.evals[i]],
             lhs.domain)

\* domain.iter().position(|f| f == point)
Position(domain, point) ==
    IF \E i \in DOMAIN domain : domain[i] = point
    THEN Some(CHOOSE i \in DOMAIN domain :
                 /\ domain[i] = point
                 /\ \A j \in DOMAIN domain : domain[j] = point => i <= j)
    ELSE None

\* the index is unwrapped: a point outside the domain panics
divide_by_linear_vanishing_from_point(point, f_x, precomputed_inverses, domain, overflow_checks) ==
    IF Position(domain, point) = None THEN NoBasis
    ELSE divide_by_linear_vanishing(Position(domain, point)[1], f_x,
                                    precomputed_inverses, domain,
                                    overflow_checks)

\* EvaluationDomain::elements of the domain of the given size
ElementsOf(size) ==
    [k \in 0 .. (size - 1) |->
        Pow(Pow(ScalarGenerator, (ScalarModulus - 1) \div size), k)]

\* EvaluationDomain::evaluate_all_lagrange_coefficients, the i-th coefficient:
\* the indicator of i at an element of the domain, and
\* omega^i (tau^D - 1) / (D (tau - omega^i)) elsewhere
LagrangeCoefficient(i, tau, domain) ==
    IF \E k \in DOMAIN domain : domain[k] = tau
    THEN (IF domain[i] = tau THEN 1 ELSE 0)
    ELSE (domain[i] * (Pow(tau, Cardinality(DOMAIN domain)) - 1)
          * Inverse((Cardinality(DOMAIN domain) * (tau - domain[i]))
                    % ScalarModulus)) % ScalarModulus

\* the sum of lagrange_coeffs[i] * evals[i] for i < n
RECURSIVE InterpolatedEval(_, _, _, _)
InterpolatedEval(lb, point, domain, n) ==
    IF n = 0 THEN 0
    ELSE (InterpolatedEval(lb, point, domain, n - 1)
          + LagrangeCoefficient(n - 1, point, domain) * lb[n - 1])
         % ScalarModulus

\* the loop runs over the domain of the basis: a basis of fewer values than
\* its domain has elements is indexed past its end
evaluate_point_outside_domain(lb, point) ==
    IF lb.status = "panic" THEN [status |-> "panic", value |-> 0]
    ELSE IF \E i \in 0 .. (lb.domain - 1) : i \notin DOMAIN lb.evals
    THEN [status |-> "panic", value |-> 0]
    ELSE [status |-> "ok",
          value |-> InterpolatedEval(lb.evals, point, ElementsOf(lb.domain),
                                     lb.domain)]

\* ark_ff::batch_inversion: every non-zero element is inverted
batch_inversion(v) ==
    [j \in DOMAIN v |-> IF v[j] = 0 THEN 0 ELSE Inverse(v[j])]

\* the events of the transcript
AppendPoint(label, point) ==
    [op |-> "append_point", label |-> label, value |-> point]
AppendScalar(label, scalar) ==
    [op |-> "append_scalar", label |-> label, value |-> scalar]
ChallengeScalar(label, scalar) ==
    [op |-> "challenge_scalar", label |-> label, value |-> scalar]
AggregateWitnessCall ==
    [op |-> "compute_aggregate_witness_lagrange", label |-> "", value |-> 0]

\* the ways rayon may run fold and reduce over the items lo .. hi: a piece is
\* folded in order from the identity, two results are reduced left to right
RECURSIVE Schedules(_, _)
Schedules(lo, hi) ==
    {<<"fold", lo, hi>>}
    \cup UNION {{<<"reduce", l, r>> :
                    l \in Schedules(lo, k), r \in Schedules(k + 1, hi)} :
                k \in lo .. (hi - 1)}

\* .fold(|| zero, |res, val| res + val) over the items lo .. hi
RECURSIVE Fold(_, _, _, _)
Fold(terms, lo, hi, domain_size) ==
    IF hi < lo THEN LagrangeBasisZero(domain_size)
    ELSE LagrangeBasisAdd(Fold(terms, lo, hi - 1, domain_size), terms[hi])

\* .fold(..).reduce(|| zero, |res, val| res + val) under a schedule
RECURSIVE FoldReduce(_, _, _)
FoldReduce(schedule, terms, domain_size) ==
    IF schedule[1] = "fold"
    THEN LagrangeBasisAdd(LagrangeBasisZero(domain_size),
                          Fold(terms, schedule[2], schedule[3], domain_size))
    ELSE LagrangeBasisAdd(FoldReduce(schedule[2], terms, domain_size),
                          FoldReduce(schedule[3], terms, domain_size))

\* lines 33-53: the commitments, the points and the evaluations are absorbed
AbsorbInputs(lagrange_polynomials, poly_commitments, evaluations, points) ==
    (IF poly_commitments = None
     THEN [j \in 1 .. Len(lagrange_polynomials) |->
              AppendPoint("f_x", commit_lagrange(lagrange_polynomials[j].evals))]
     ELSE [j \in 1 .. Len(poly_commitments[1]) |->
              AppendPoint("f_x", poly_commitments[1][j])])
    \o [j \in 1 .. Len(points) |-> AppendScalar("value", points[j])]
    \o [j \in 1 .. Len(evaluations) |-> AppendScalar("eval", evaluations[j])]

\* lines 65-79: the witness of each polynomial at its point
each_witness(lagrange_polynomials, points, evaluations, inv, domain_elements, overflow_checks) ==
    [j \in 1 .. MinOf(Len(lagrange_polynomials),
                      MinOf(Len(points), Len(evaluations))) |->
        divide_by_linear_vanishing_from_point(
            points[j], add_scalar(lagrange_polynomials[j], evaluations[j]),
            inv, domain_elements, overflow_checks)]

\* mutant: the j-th witness is paired with the power after its own
WitnessTerms_Shifted(witnesses, r_i) ==
    [j \in 1 .. MinOf(Len(witnesses), Cardinality(DOMAIN r_i)) |->
        LagrangeBasisMul(witnesses[j], r_i[j % Cardinality(DOMAIN r_i)])]

\* lines 81-83: each witness times its power of r
WitnessTerms(witnesses, r_i) ==
    [j \in 1 .. MinOf(Len(witnesses), Cardinality(DOMAIN r_i)) |->
        LagrangeBasisMul(witnesses[j], r_i[j - 1])]

\* mutant: every power of r is divided by t minus the first point
helper_coefficients_FirstPoint(r_i, points, t) ==
    [j \in 1 .. MinOf(Cardinality(DOMAIN r_i), Len(points)) |->
        (r_i[j - 1]
         * batch_inversion([k \in 1 .. Len(points) |->
                               (t - points[k]) % ScalarModulus])[1])
        % ScalarModulus]

\* lines 97-102: r^j / (t - z_j)
helper_coefficients(r_i, points, t) ==
    [j \in 1 .. MinOf(Cardinality(DOMAIN r_i), Len(points)) |->
        (r_i[j - 1]
         * batch_inversion([k \in 1 .. Len(points) |->
                               (t - points[k]) % ScalarModulus])[j])
        % ScalarModulus]

\* lines 104-106: each polynomial times its helper coefficient
HelperTerms(helper_scalars, lagrange_polynomials) ==
    [j \in 1 .. MinOf(Len(helper_scalars), Len(lagrange_polynomials)) |->
        LagrangeBasisMul(lagrange_polynomials[j], helper_scalars[j])]

\* mutant: t is squeezed before r and D are absorbed
TranscriptAfterG_SqueezeFirst(absorbed, r, d_comm, t) ==
    absorbed
    \o <<ChallengeScalar("r", r), ChallengeScalar("t", t),
         AppendScalar("r", r), AppendPoint("D", d_comm)>>

\* lines 62, 90-94: r is squeezed; r and D are absorbed; t is squeezed
TranscriptAfterG(absorbed, r, d_comm, t) ==
    absorbed
    \o <<ChallengeScalar("r", r), AppendScalar("r", r),
         AppendPoint("D", d_comm), ChallengeScalar("t", t)>>

\* the opener panicked with the transcript as it was
OpenPanics(transcript) ==
    [status |-> "panic", transcript |-> transcript, g_x |-> <<>>,
     h_x |-> <<>>, sum_quotient |-> commit_lagrange(<<>>),
     helper_evaluation |-> 0]

\* lines 116-142: h and g are evaluated at t, the last absorptions, the
\* aggregate witness and the proof
OpenFinish(transcript, g_x, h_x, h_t, g_t) ==
    IF h_t.status = "panic" \/ g_t.status = "panic"
    THEN OpenPanics(transcript)
    ELSE [status |-> "ok",
          transcript |->
             transcript
             \o <<AppendPoint("E", commit_lagrange(h_x.evals)),
                  AppendPoint("d_comm", commit_lagrange(g_x.evals)),
                  AppendScalar("h_t", h_t.value),
                  AppendScalar("g_t", g_t.value),
                  AggregateWitnessCall>>,
          g_x |-> g_x.evals,
          h_x |-> h_x.evals,
          sum_quotient |-> commit_lagrange(g_x.evals),
          helper_evaluation |-> h_t.value]

\* lines 104-117: h is summed and committed
OpenWithHelper(transcript, g_x, h_x, t) ==
    IF h_x.status = "panic" THEN OpenPanics(transcript)
    ELSE OpenFinish(transcript, g_x, h_x,
                    evaluate_point_outside_domain(h_x, t),
                    evaluate_point_outside_domain(g_x, t))

\* lines 81-102: g is summed and committed, r and D are absorbed, t is
\* squeezed
OpenAfterG(lagrange_polynomials, points, absorbed, r, r_i, g_x, t, schedule_h, domain_size) ==
    IF g_x.status = "panic"
    THEN OpenPanics(absorbed \o <<ChallengeScalar("r", r)>>)
    ELSE OpenWithHelper(
             TranscriptAfterG(absorbed, r, commit_lagrange(g_x.evals), t),
             g_x,
             FoldReduce(schedule_h,
                 HelperTerms(helper_coefficients(r_i, points, t),
                             lagrange_polynomials),
                 domain_size),
             t)

\* lines 57-85: the witnesses are computed and summed into g
OpenWithPowers(lagrange_polynomials, evaluations, points, absorbed, r, r_i, t, schedule_g, schedule_h, domain_elements, overflow_checks) ==
    OpenAfterG(lagrange_polynomials, points, absorbed, r, r_i,
        FoldReduce(schedule_g,
            WitnessTerms(each_witness(lagrange_polynomials, points,
                evaluations, compute_inv(domain_elements), domain_elements,
                overflow_checks),
                r_i),
            Cardinality(DOMAIN domain_elements)),
        t, schedule_h, Cardinality(DOMAIN domain_elements))

\* open_multipoint_lagrange: r and t are the challenges the transcript gives,
\* the schedules are the ways the two parallel sums are run; the domain is
\* that of the first polynomial, which is expected to exist
open_multipoint_lagrange(lagrange_polynomials, poly_commitments, evaluations, points, r, t, schedule_g, schedule_h, overflow_checks) ==
    IF Len(lagrange_polynomials) = 0 THEN OpenPanics(<<>>)
    ELSE OpenWithPowers(lagrange_polynomials, evaluations, points,
             AbsorbInputs(lagrange_polynomials, poly_commitments, evaluations,
                          points),
             r, powers_of(r, Len(lagrange_polynomials) - 1), t,
             schedule_g, schedule_h,
             ElementsOf(lagrange_polynomials[1].domain), overflow_checks)

\* the value of a polynomial in Lagrange form at a point of the domain
EvalAt(f, point) == f[Position(DomainElements, point)[1]]

\* the pairs of a polynomial and a point, and the challenges, of the runs
\* explored
OpenerPairs ==
    {<<[i \in DomainIdx |-> (i + 2) % ScalarModulus], DomainElements[0]>>,
     <<[i \in DomainIdx |-> (i + 2) % ScalarModulus],
       DomainElements[DomainSize - 1]>>,
     <<[i \in DomainIdx |-> IF i = 0 THEN 5 ELSE 0], DomainElements[1]>>}
ChallengesR == {2, 3}
ChallengesT == {5, 6}

\* the arguments of a call: the evaluations are those of the polynomials at
\* the points, the commitments are given or left to the opener
OpenerInputs ==
    UNION {{[polys |-> [j \in 1 .. m |-> ps[j][1]],
             points |-> [j \in 1 .. m |-> ps[j][2]],
             evaluations |-> [j \in 1 .. m |-> EvalAt(ps[j][1], ps[j][2])],
             commitments |->
                 IF given
                 THEN Some([j \in 1 .. m |-> commit_lagrange(ps[j][1])])
                 ELSE None] :
              ps \in SeqsOfLen(OpenerPairs, m), given \in BOOLEAN} :
           m \in 1 .. MaxPolys}

InitOpener ==
    /\ TrieInit
    /\ NoCall
    /\ arena = ArenaNew
    /\ NoBatch
    /\ opener \in {Some([in |-> i, out |-> None]) : i \in OpenerInputs}

\* the polynomials of a call as Evaluations over the domain
InputPolynomials(polys) ==
    [j \in 1 .. Len(polys) |-> from_vec_and_domain(polys[j], DomainSize)]

\* a run of the opener; each of the two sums depends on its own schedule only,
\* and one schedule is explored for both; the build profile decides whether
\* the subtractions are checked
Open(r, t, schedule_g, schedule_h) ==
    /\ opener # None
    /\ opener[1].out = None
    /\ \E overflow_checks \in BOOLEAN :
          opener' =
             Some([in |-> opener[1].in,
                   r |-> r, t |-> t,
                   schedule_g |-> schedule_g, schedule_h |-> schedule_h,
                   out |-> Some(open_multipoint_lagrange(
                               InputPolynomials(opener[1].in.polys),
                               opener[1].in.commitments,
                               opener[1].in.evaluations, opener[1].in.points,
                               r, t, schedule_g, schedule_h,
                               overflow_checks))])
    /\ UNCHANGED <<storage, panicked, expected, count, dup, last, pending, call,
                   result, arena, batch, puts, backend>>

NextOpener ==
    \E r \in ChallengesR, t \in ChallengesT :
        \E schedule \in Schedules(1, Len(opener[1].in.polys)) :
            Open(r, t, schedule, schedule)

SpecOpener == InitOpener /\ [][NextOpener]_vars

\* the run of the opener has returned
Opened ==
    /\ opener # None
    /\ opener[1].out # None
    /\ opener[1].out[1].status = "ok"

----------------------------------------------------------------------------
(* The paths of a proof: verkle/mod.rs *)

MaxPathLen == 2

\* VerklePath: the points, the evaluations, the commitments and the
\* polynomials of the openings of a path
VerklePath(omega_path_indices, node_roots, commitments, polynomials) ==
    [omega_path_indices |-> omega_path_indices, node_roots |-> node_roots,
     commitments |-> commitments, polynomials |-> polynomials]

\* mutant: the evaluations of other come before those of self
merge_RootsPrepended(self, other) ==
    VerklePath(self.omega_path_indices \o other.omega_path_indices,
               other.node_roots \o self.node_roots,
               self.commitments \o other.commitments,
               self.polynomials \o other.polynomials)

\* VerklePath::merge: each sequence of self is extended with that of other
merge(self, other) ==
    VerklePath(self.omega_path_indices \o other.omega_path_indices,
               self.node_roots \o other.node_roots,
               self.commitments \o other.commitments,
               self.polynomials \o other.polynomials)

\* the path of a sequence of pairs of a polynomial and a point, the last
\* `short` commitments left out
PathOf(ps, short) ==
    VerklePath([j \in 1 .. Len(ps) |-> ps[j][2]],
               [j \in 1 .. Len(ps) |-> EvalAt(ps[j][1], ps[j][2])],
               [j \in 1 .. (Len(ps) - short) |-> commit_lagrange(ps[j][1])],
               [j \in 1 .. Len(ps) |-> ps[j][1]])

\* the operands explored: the paths of up to MaxPathLen openings, and the
\* same paths with one commitment missing
MergePaths ==
    {PathOf(ps, 0) : ps \in SeqsUpTo(OpenerPairs, MaxPathLen)}
    \cup {PathOf(ps, 1) : ps \in SeqsUpTo(OpenerPairs, MaxPathLen) \ {<<>>}}

InitMerge ==
    /\ TrieInit
    /\ call \in {Some([fn |-> "merge", self |-> a, other |-> b]) :
                    a \in MergePaths, b \in MergePaths}
    /\ result = None
    /\ arena = ArenaNew
    /\ NoBatch
    /\ NoOpener

CallMerge ==
    /\ Calling("merge")
    /\ result' = Some(merge(call[1].self, call[1].other))
    /\ UNCHANGED <<storage, panicked, expected, count, dup, last, pending, call,
                   arena, batch, puts, backend, opener>>

NextMerge == CallMerge

SpecMerge == InitMerge /\ [][NextMerge]_vars

----------------------------------------------------------------------------
(* From-scratch recomputations used to state the properties *)

IsBranch(db, path) ==
    path \in DOMAIN db.branch /\ db.branch[path].kind = "branch"

IsStemRef(db, path) ==
    path \in DOMAIN db.branch /\ db.branch[path].kind = "stem"

\* every proper prefix of the path, and the path itself, is a branch
ReachableBranch(db, path) ==
    \A n \in 0 .. Len(path) : IsBranch(db, SubSeq(path, 1, n))

\* a child slot of a branch reachable from the root
ReachableSlot(db, slot) ==
    /\ Len(slot) > 0
    /\ slot \in DOMAIN db.branch
    /\ ReachableBranch(db, SubSeq(slot, 1, Len(slot) - 1))

\* field value a branch commits to at child index i
HashOfChild(db, path, i) ==
    LET child == get_branch_child(db, path, i)
    IN  IF child = None THEN FrZero
        ELSE IF child[1].kind = "branch" THEN child[1].meta.hash_commitment
        ELSE db.stem[child[1].stem].meta.hash_stem_commitment

RECURSIVE ChildrenCommitment(_, _, _)
ChildrenCommitment(db, path, n) ==
    IF n = 0 THEN GZero
    ELSE GAdd(ChildrenCommitment(db, path, n - 1),
              ScalarMul(HashOfChild(db, path, n - 1), n - 1))

\* contribution of an occupied slot n (within its bank) holding value
SlotContribution(value, n) ==
    GAdd(ScalarMul(FrAdd(FrFromHalf(value[1]), TwoPow128), 2 * n),
         ScalarMul(FrFromHalf(value[2]), 2 * n + 1))

\* sum of the contributions of the occupied slots base .. base + n - 1
RECURSIVE BankCommitment(_, _, _, _)
BankCommitment(db, stem, base, n) ==
    IF n = 0 THEN GZero
    ELSE LET leaf == get_leaf(db, Append(stem, base + n - 1))
         IN  GAdd(BankCommitment(db, stem, base, n - 1),
                  IF leaf = None THEN GZero
                  ELSE SlotContribution(leaf[1], n - 1))

BanksMatchLeaves(db, stem) ==
    /\ db.stem[stem].meta.C_1 = BankCommitment(db, stem, 0, HalfWidth)
    /\ db.stem[stem].meta.C_2 = BankCommitment(db, stem, HalfWidth, HalfWidth)

\* the store obtained from a fresh trie by inserting the pairs of the map m,
\* one reference order
RECURSIVE InsertAll(_, _, _)
InsertAll(db, m, todo) ==
    IF todo = {} THEN db
    ELSE LET k == CHOOSE x \in todo : TRUE
         IN  InsertAll(insert(db, k, m[k]).db, m, todo \ {k})

----------------------------------------------------------------------------
(* Properties *)

TypeOK ==
    /\ count \in 0 .. MaxInserts
    /\ panicked \in BOOLEAN
    /\ dup \in BOOLEAN
    /\ DOMAIN expected \subseteq Keys

\* C1: after inserts in which every key occurs once, get(k) returns the
\* inserted value for every inserted key and None for every other key
C1_GetReturnsInserted ==
    ~dup =>
        \A k \in Keys :
            get(storage, k) =
                IF k \in DOMAIN expected THEN Some(expected[k]) ELSE None

\* C2: every branch reachable from the root commits to the hashes of its
\* children, and its hash_commitment is group_to_field of its commitment
C2_BranchCommitmentConsistent ==
    \A path \in DOMAIN storage.branch :
        ReachableBranch(storage, path) =>
            LET meta == storage.branch[path].meta
            IN  /\ meta.commitment = ChildrenCommitment(storage, path, Width)
                /\ meta.hash_commitment = GroupToField(meta.commitment)

\* a chain of branches below the root has been created and then traversed
C2_Witness ==
    /\ count = 3
    /\ \E path \in DOMAIN storage.branch :
          /\ Len(path) = 2
          /\ ReachableBranch(storage, path)
          /\ Cardinality({i \in PathIdx :
                get_branch_child(storage, path, i) # None}) = 2
    /\ \E path \in DOMAIN storage.branch :
          /\ Len(path) = 1
          /\ IsBranch(storage, path)
          /\ Cardinality({i \in PathIdx :
                get_branch_child(storage, path, i) # None}) = 2

\* C3: every stored stem satisfies
\* stem_commitment = G_0 + Fr(stem) G_1 + hash_c1 G_2 + hash_c2 G_3 with the
\* three hashes being group_to_field of their points
C3_StemCommitmentConsistent ==
    \A stem \in DOMAIN storage.stem :
        LET m == storage.stem[stem].meta
        IN  /\ m.hash_c1 = GroupToField(m.C_1)
            /\ m.hash_c2 = GroupToField(m.C_2)
            /\ m.hash_stem_commitment = GroupToField(m.stem_commitment)
            /\ m.stem_commitment =
                  GAdd(GAdd(SRS(0), ScalarMul(FrFromLeBytes(stem, StemLen), 1)),
                       GAdd(ScalarMul(m.hash_c1, 2), ScalarMul(m.hash_c2, 3)))

\* a stem with leaves in the second bank only, whose C_1 is the identity, and
\* a stem with leaves in both banks
C3_Witness ==
    /\ \E stem \in DOMAIN storage.stem :
          /\ storage.stem[stem].meta.C_1 = GZero
          /\ storage.stem[stem].meta.hash_c1 = FrZero
          /\ storage.stem[stem].meta.C_2 # GZero
    /\ \E stem \in DOMAIN storage.stem :
          /\ storage.stem[stem].meta.C_1 # GZero
          /\ storage.stem[stem].meta.C_2 # GZero

\* C4: when no key has been written twice, the bank commitments of every
\* stem equal the sum of the contributions of its occupied slots
C4_BanksMatchSlots ==
    ~dup => \A stem \in DOMAIN storage.stem : BanksMatchLeaves(storage, stem)

\* a stem with two occupied slots in the first bank and one in the second
C4_Witness ==
    /\ ~dup
    /\ \E stem \in DOMAIN storage.stem :
          /\ get_leaf(storage, Append(stem, 0)) # None
          /\ get_leaf(storage, Append(stem, 1)) # None
          /\ get_leaf(storage, Append(stem, HalfWidth)) # None

\* C5: after an insert that overwrites a slot holding a different value, the
\* banks of the stem hold for that slot the contribution of the new value
\* alone, as if only the new value had been written
C5_OverwriteHasNoOccupancyTerm ==
    (/\ last # None
     /\ last[1].old # None
     /\ last[1].old # Some(last[1].value))
        => BanksMatchLeaves(storage, StemOf(last[1].key))

\* C6: the root after inserting a set of pairs with distinct keys equals the
\* root after inserting the same pairs in the reference order
C6_RootPermutationInvariant ==
    ~dup =>
        compute_root(storage) =
            compute_root(InsertAll(TrieNew(EmptyDb), expected, DOMAIN expected))

\* C7: an insert of the value that get(key) already returns changes nothing
C7_SameValueIsNoop ==
    [][(/\ count' = count + 1
        /\ get(storage, last'[1].key) = Some(last'[1].value))
            => storage' = storage]_vars

\* the last insert wrote the value its key already had, under a stem that a
\* ChainInsert had moved
C7_Witness ==
    /\ last # None
    /\ last[1].old = Some(last[1].value)
    /\ \E path \in DOMAIN storage.branch :
          /\ IsStemRef(storage, path)
          /\ storage.branch[path].stem = StemOf(last[1].key)
          /\ Len(path) > 1

\* C8: compute_root returns the hash_commitment of the branch at the empty
\* path, which is 0 before any insert
C8_RootIsRootBranchHash ==
    /\ IsBranch(storage, <<>>)
    /\ compute_root(storage) = Some(storage.branch[<<>>].meta.hash_commitment)
    /\ count = 0 => compute_root(storage) = Some(FrZero)

\* inserts have moved the root away from zero
C8_Witness ==
    /\ count > 0
    /\ compute_root(storage) # None
    /\ compute_root(storage) # Some(FrZero)

\* C9: no two distinct child slots reachable from the root reference the
\* same stem
C9_StemUniqueness ==
    \A p \in DOMAIN storage.branch, q \in DOMAIN storage.branch :
        (/\ p # q
         /\ ReachableSlot(storage, p) /\ IsStemRef(storage, p)
         /\ ReachableSlot(storage, q) /\ IsStemRef(storage, q))
            => storage.branch[p].stem # storage.branch[q].stem

\* a ChainInsert has replaced a stem by a branch holding two stems
C9_Witness ==
    \E path \in DOMAIN storage.branch :
        /\ Len(path) > 0
        /\ ReachableBranch(storage, path)
        /\ Cardinality({i \in PathIdx :
              IsStemRef(storage, Append(path, i))}) = 2

\* C10: a stored leaf whose stem is referenced from the branch at path p has
\* recorded depth Len(p) + 1
C10_LeafDepth ==
    \A k \in DOMAIN storage.leaf, slot \in DOMAIN storage.branch :
        (/\ ReachableSlot(storage, slot)
         /\ IsStemRef(storage, slot)
         /\ storage.branch[slot].stem = StemOf(k))
            => storage.leaf[k].depth = Len(slot)

NeverPanics == ~panicked

\* C11: for every stem, get_stem_children returns exactly the pairs
\* (last index, last inserted value) of the inserted keys with that stem
C11_StemChildrenAreInserted ==
    \A key \in Keys :
        get_stem_children(storage, StemOf(key)) =
            {<<k[KeyLen], expected[k]>> :
                k \in {x \in DOMAIN expected : StemOf(x) = StemOf(key)}}

\* C12: an insert at a slot of the first bank leaves C_2 and hash_c2 of the
\* stem as they were and moves the stem commitment on G_2 only; an insert at
\* a slot of the second bank leaves C_1 and hash_c1 and moves it on G_3 only
C12_OtherBankUntouched ==
    [][(count' = count + 1 /\ StemOf(last'[1].key) \in DOMAIN storage'.stem)
        => LET key == last'[1].key
               cur == StemMetaOrFresh(storage, StemOf(key))
               new == storage'.stem[StemOf(key)].meta
           IN  IF key[KeyLen] < HalfWidth
               THEN /\ new.C_2 = cur.C_2
                    /\ new.hash_c2 = cur.hash_c2
                    /\ \A i \in PathIdx \ {2} :
                          new.stem_commitment[i] = cur.stem_commitment[i]
               ELSE /\ new.C_1 = cur.C_1
                    /\ new.hash_c1 = cur.hash_c1
                    /\ \A i \in PathIdx \ {3} :
                          new.stem_commitment[i] = cur.stem_commitment[i]]_vars

\* C13: the step that plans an insert leaves the storage as it was, and the
\* step that executes it starts from the complete instruction list of the
\* storage it writes to
C13_PlanningOnlyReads ==
    [][/\ (pending = None /\ pending' # None) => storage' = storage
       /\ count' # count =>
             /\ pending # None
             /\ pending[1].instructions =
                   create_insert_instructions(storage, pending[1].key,
                                              pending[1].value).instructions]_vars

\* a ChainInsert is planned and not yet executed
C13_Witness ==
    /\ pending # None
    /\ Len(pending[1].instructions) > 0
    /\ pending[1].instructions[Len(pending[1].instructions)].op = "ChainInsert"
    /\ pending[1].key \notin DOMAIN storage.leaf

\* C14: an insert whose execution fails leaves the storage as it was before
\* the insert
C14_FailedInsertRolledBack ==
    [][(panicked' /\ ~panicked) => storage' = storage]_vars

\* C15: setup and setup_from_secret return DegreeIsZero exactly when
\* max_degree < 1 and Ok for every max_degree >= 1
C15_DegreeIsZeroOnlyBelowOne ==
    (Returned("setup") \/ Returned("setup_from_secret")) =>
        /\ result[1].status = "DegreeIsZero" <=> call[1].max_degree < 1
        /\ call[1].max_degree >= 1 => result[1].status = "Ok"

\* C16: an insert into the arena whose walk meets a hashed node panics and
\* leaves the child map and every node, cached commitments included, as
\* they were
C16_HashedNodeInsertFails ==
    [][(/\ arena'.count = arena.count + 1
        /\ WalkMeetsHashed(arena, arena'.last[1].key, root_index, 1))
            => /\ arena'.status = "panic"
               /\ arena'.children = arena.children
               /\ arena'.nodes = arena.nodes]_vars

\* an insert has met the hashed node below two internal nodes, in an arena
\* that holds leaves and cached commitments
C16_Witness ==
    /\ arena.status = "panic"
    /\ arena.count >= 2
    /\ WalkMeetsHashed(arena, arena.last[1].key, root_index, 1)
    /\ Len(arena.last[1].key) > 1
    /\ Child(arena.children, root_index, arena.last[1].key[1]) # None
    /\ arena.nodes[Child(arena.children, root_index,
                         arena.last[1].key[1])[1]].kind = "internal"
    /\ arena.nodes[root_index].commitment # None
    /\ \E i \in 1 .. Len(arena.nodes) : arena.nodes[i].kind = "leaf_ext"

\* C17: paths_from_relative(parent, rel) with non-empty rel returns Len(rel)
\* paths, the i-th being parent followed by the first i indices of rel, each
\* one longer than the one before and the last being parent followed by rel;
\* with empty rel the assertion fails
C17_PathsFromRelative ==
    Returned("paths_from_relative") =>
        LET parent == call[1].parent_path
            rel == call[1].relative_paths
            r == result[1]
        IN  IF Len(rel) = 0 THEN r.status = "panic"
            ELSE /\ r.status = "ok"
                 /\ Len(r.paths) = Len(rel)
                 /\ \A i \in 1 .. Len(rel) :
                       /\ Len(r.paths[i]) = Len(parent) + i
                       /\ \A j \in 1 .. Len(parent) : r.paths[i][j] = parent[j]
                       /\ \A j \in 1 .. i :
                             r.paths[i][Len(parent) + j] = rel[j]
                 /\ \A i \in 1 .. Len(rel) - 1 :
                       Len(r.paths[i + 1]) = Len(r.paths[i]) + 1
                 /\ r.paths[Len(rel)] = parent \o rel

\* three paths have been returned for a parent of two indices
C17_Witness ==
    /\ Returned("paths_from_relative")
    /\ Len(call[1].parent_path) = 2
    /\ Len(call[1].relative_paths) = 3
    /\ result[1].status = "ok"
    /\ Len(result[1].paths) = 3

\* C18: path_difference(a, b) returns the longest common prefix of a and b
\* and the first differing index of each; both are None exactly when a = b,
\* and when present they differ
C18_PathDifference ==
    Returned("path_difference") =>
        LET a == call[1].a
            b == call[1].b
            r == result[1]
            n == Len(r.shared)
        IN  /\ n <= Len(a) /\ n <= Len(b)
            /\ \A i \in 1 .. n : r.shared[i] = a[i] /\ r.shared[i] = b[i]
            /\ (n < Len(a) /\ n < Len(b)) => a[n + 1] # b[n + 1]
            /\ (r.diff_a = None /\ r.diff_b = None) <=> a = b
            /\ a # b =>
                  /\ r.diff_a = Some(a[n + 1])
                  /\ r.diff_b = Some(b[n + 1])
                  /\ r.diff_a # r.diff_b

\* two stems that share their first two indices and differ at the third
C18_Witness ==
    /\ Returned("path_difference")
    /\ Len(result[1].shared) = 2
    /\ result[1].diff_a = Some(0)
    /\ result[1].diff_b = Some(1)

\* -sum over i < n, i # idx, of omega^(i - idx) * q[i]
RECURSIVE MinusWeightedSum(_, _, _)
MinusWeightedSum(q, idx, n) ==
    IF n = 0 THEN 0
    ELSE (MinusWeightedSum(q, idx, n - 1)
          - (IF n - 1 = idx THEN 0
             ELSE Pow(omega, (n - 1 - idx) % DomainSize) * q[n - 1]))
         % ScalarModulus

\* q is sign times the Lagrange form of (f(X) - f(omega^idx)) / (X - omega^idx)
IsQuotient(q, f, idx, sign) ==
    /\ \A i \in DomainIdx \ {idx} :
          (sign * q[i] * (Pow(omega, i) - Pow(omega, idx))) % ScalarModulus
              = (f[i] - f[idx]) % ScalarModulus
    /\ q[idx] = MinusWeightedSum(q, idx, DomainSize)

\* C20 as stated: with inv[k] = 1 / (omega^k - 1) the result is the Lagrange
\* form of the quotient (f(X) - f(omega^idx)) / (X - omega^idx)
C20_QuotientAsStated ==
    (Returned("divide_by_linear_vanishing") /\ call[1].inv = InvOmegaMinusOne)
        => IsQuotient(result[1].evals, call[1].f_x, call[1].index, 1)

\* C20 amended: with inv[k] = 1 / (omega^k - 1) the result is the Lagrange
\* form of the negated quotient, q[i] * (omega^idx - omega^i) = f[i] - f[idx];
\* it is the quotient itself with inv[k] = 1 / (1 - omega^k); in both cases
\* q[idx] = -sum over i # idx of omega^(i - idx) * q[i]
C20_QuotientUpToSign ==
    Returned("divide_by_linear_vanishing") =>
        IsQuotient(result[1].evals, call[1].f_x, call[1].index,
                   IF call[1].inv = InvOmegaMinusOne THEN -1 ELSE 1)

\* a division at index 0, where index - i wraps for every other i, of a
\* polynomial with different values at 0 and 1
C20_Witness ==
    /\ Returned("divide_by_linear_vanishing")
    /\ call[1].inv = InvOmegaMinusOne
    /\ call[1].index = 0
    /\ call[1].f_x[0] # call[1].f_x[1]
    /\ result[1].evals[1] # 0
    /\ result[1].evals[0] # 0

\* the last insert filled a slot of the second bank of a stem whose first
\* bank was already in use
C12_Witness ==
    /\ last # None
    /\ last[1].old = None
    /\ last[1].key[KeyLen] >= HalfWidth
    /\ StemOf(last[1].key) \in DOMAIN storage.stem
    /\ storage.stem[StemOf(last[1].key)].meta.C_1 # GZero
    /\ storage.stem[StemOf(last[1].key)].meta.C_2 # GZero

----------------------------------------------------------------------------
(* The write batch *)

\* keys and values of the batch are the keys and values of the batch_put
\* calls, in call order
BatchHoldsPuts ==
    batch # None =>
        /\ Len(batch[1].keys) = Len(puts)
        /\ Len(batch[1].values) = Len(puts)
        /\ \A i \in 1 .. Len(puts) :
              batch[1].keys[i] = puts[i][1] /\ batch[1].values[i] = puts[i][2]

\* a flush adds one jsbatch_put call that carries every buffered pair, and no
\* other step calls the backend
FlushIsOneCall ==
    IF batch # None /\ batch' = None
    THEN /\ Len(backend') = Len(backend) + 1
         /\ SubSeq(backend', 1, Len(backend)) = backend
         /\ backend'[Len(backend')] =
               jsbatch_put([i \in 1 .. Len(puts) |-> Uint8ArrayFrom(puts[i][1])],
                           [i \in 1 .. Len(puts) |-> Uint8ArrayFrom(puts[i][2])])
    ELSE backend' = backend

\* C21: the batch holds the keys and the values of the batch_put calls as
\* parallel sequences in call order, repeated keys included, and flush hands
\* all of them to the backend in exactly one jsbatch_put call
C21_BatchFlushedAsOne == []BatchHoldsPuts /\ [][FlushIsOneCall]_vars

\* a batch in which a key was put twice has been flushed
C21_Witness ==
    /\ batch = None
    /\ Len(backend) = 1
    /\ Len(puts) = MaxBatch
    /\ puts[1][1] = puts[2][1]
    /\ puts[1][2] # puts[2][2]

----------------------------------------------------------------------------
(* Powers of a scalar *)

\* x^n by squaring, in the scalar field
RECURSIVE PowBySquaring(_, _)
PowBySquaring(x, n) ==
    IF n = 0 THEN 1
    ELSE IF n % 2 = 0 THEN PowBySquaring((x * x) % ScalarModulus, n \div 2)
    ELSE (x * PowBySquaring(x, n - 1)) % ScalarModulus

----------------------------------------------------------------------------
(* The multipoint opener *)

\* the sum of the terms in the order of their indices, at the index i
RECURSIVE SumAt(_, _, _)
SumAt(terms, n, i) ==
    IF n = 0 THEN 0 ELSE (SumAt(terms, n - 1, i) + terms[n][i]) % ScalarModulus

SequentialSum(terms, n) == [i \in DomainIdx |-> SumAt(terms, n, i)]

\* the terms of g and of h of the run, computed from its inputs
RunWitnessTerms ==
    [j \in 1 .. Len(opener[1].in.polys) |->
        LagrangeBasisMul(
            divide_by_linear_vanishing(
                Position(DomainElements, opener[1].in.points[j])[1],
                add_scalar(InputPolynomials(opener[1].in.polys)[j],
                           opener[1].in.evaluations[j]),
                compute_inv(DomainElements), DomainElements, FALSE),
            PowBySquaring(opener[1].r, j - 1)).evals]
RunHelperTerms ==
    [j \in 1 .. Len(opener[1].in.polys) |->
        LagrangeBasisMul(
            InputPolynomials(opener[1].in.polys)[j],
            (PowBySquaring(opener[1].r, j - 1)
             * Inverse((opener[1].t - opener[1].in.points[j]) % ScalarModulus))
            % ScalarModulus).evals]

\* C23: whatever the way the parallel fold and reduce split the terms, g and h
\* equal the sums of their terms taken in index order
C23_SumsIndependentOfSchedule ==
    Opened =>
        /\ opener[1].out[1].g_x
             = SequentialSum(RunWitnessTerms, Len(opener[1].in.polys))
        /\ opener[1].out[1].h_x
             = SequentialSum(RunHelperTerms, Len(opener[1].in.polys))

\* a run over three polynomials whose sums were reduced from a single item
\* on the left and a reduction of two pieces on the right, with g and h not
\* zero
C23_Witness ==
    /\ Opened
    /\ Len(opener[1].in.polys) >= 3
    /\ opener[1].schedule_g[1] = "reduce"
    /\ opener[1].schedule_g[3][1] = "reduce"
    /\ opener[1].schedule_h[1] = "reduce"
    /\ opener[1].schedule_h[3][1] = "reduce"
    /\ \E i \in DomainIdx : opener[1].out[1].g_x[i] # 0
    /\ \E i \in DomainIdx : opener[1].out[1].h_x[i] # 0

\* the transcript of the run, and the positions of its events of one kind
RunTranscript == opener[1].out[1].transcript
EventsAt(op, label) ==
    {k \in 1 .. Len(RunTranscript) :
        RunTranscript[k].op = op /\ RunTranscript[k].label = label}
Before(A, B) == \A a \in A, b \in B : a < b
TheEvent(op, label) == RunTranscript[CHOOSE k \in EventsAt(op, label) : TRUE]

\* C29: the commitments, then the points, then the evaluations are absorbed
\* before r is squeezed; r and D are absorbed before t is squeezed; E, D, h(t)
\* and g(t) are absorbed before the aggregate witness is computed
C29_TranscriptOrder ==
    Opened =>
        /\ Cardinality(EventsAt("append_point", "f_x"))
             = Len(opener[1].in.polys)
        /\ \A j \in 1 .. Len(opener[1].in.polys) :
              /\ RunTranscript[j]
                   = AppendPoint("f_x", commit_lagrange(opener[1].in.polys[j]))
              /\ RunTranscript[Len(opener[1].in.polys) + j]
                   = AppendScalar("value", opener[1].in.points[j])
              /\ RunTranscript[2 * Len(opener[1].in.polys) + j]
                   = AppendScalar("eval", opener[1].in.evaluations[j])
        /\ Cardinality(EventsAt("challenge_scalar", "r")) = 1
        /\ Cardinality(EventsAt("challenge_scalar", "t")) = 1
        /\ Cardinality(EventsAt("compute_aggregate_witness_lagrange", "")) = 1
        /\ Before(EventsAt("append_point", "f_x"),
                  EventsAt("append_scalar", "value"))
        /\ Before(EventsAt("append_scalar", "value"),
                  EventsAt("append_scalar", "eval"))
        /\ Before(EventsAt("append_scalar", "eval"),
                  EventsAt("challenge_scalar", "r"))
        /\ Before(EventsAt("challenge_scalar", "r"),
                  EventsAt("append_scalar", "r"))
        /\ \A label \in {"r"} :
              /\ EventsAt("append_scalar", label) # {}
              /\ Before(EventsAt("append_scalar", label),
                        EventsAt("challenge_scalar", "t"))
        /\ EventsAt("append_point", "D") # {}
        /\ Before(EventsAt("append_point", "D"),
                  EventsAt("challenge_scalar", "t"))
        /\ TheEvent("append_scalar", "r").value
             = TheEvent("challenge_scalar", "r").value
        /\ TheEvent("append_point", "D").value
             = commit_lagrange(opener[1].out[1].g_x)
        /\ \A label \in {"E", "d_comm"} :
              /\ EventsAt("append_point", label) # {}
              /\ Before(EventsAt("challenge_scalar", "t"),
                        EventsAt("append_point", label))
              /\ Before(EventsAt("append_point", label),
                        EventsAt("compute_aggregate_witness_lagrange", ""))
        /\ \A label \in {"h_t", "g_t"} :
              /\ EventsAt("append_scalar", label) # {}
              /\ Before(EventsAt("challenge_scalar", "t"),
                        EventsAt("append_scalar", label))
              /\ Before(EventsAt("append_scalar", label),
                        EventsAt("compute_aggregate_witness_lagrange", ""))
        /\ TheEvent("append_point", "E").value
             = commit_lagrange(opener[1].out[1].h_x)
        /\ TheEvent("append_point", "d_comm").value
             = commit_lagrange(opener[1].out[1].g_x)

\* a run over several polynomials whose commitments the opener computed
C29_Witness ==
    /\ Opened
    /\ Len(opener[1].in.polys) >= 2
    /\ opener[1].in.commitments = None
    /\ Len(RunTranscript) = 3 * Len(opener[1].in.polys) + 9

\* the Lagrange form of (f(X) - y) / (X - z): away from z the quotient of the
\* values, and at z the value that makes the degree of q less than D - 1
QuotientAway(f, y, z) ==
    [i \in DomainIdx |->
        IF DomainElements[i] = z THEN 0
        ELSE ((f[i] - y) * Inverse((DomainElements[i] - z) % ScalarModulus))
             % ScalarModulus]
LagrangeQuotient(f, y, z) ==
    [i \in DomainIdx |->
        IF DomainElements[i] = z
        THEN MinusWeightedSum(QuotientAway(f, y, z), i, DomainSize)
        ELSE QuotientAway(f, y, z)[i]]

\* r^(j-1) times the quotient of the j-th polynomial, point and evaluation
RunQuotientTerms ==
    [j \in 1 .. Len(opener[1].in.polys) |->
        [i \in DomainIdx |->
            (LagrangeQuotient(opener[1].in.polys[j],
                              opener[1].in.evaluations[j],
                              opener[1].in.points[j])[i]
             * PowBySquaring(opener[1].r, j - 1)) % ScalarModulus]]

\* the negation, in the scalar field, of the values of a polynomial
Negated(f) == [i \in DOMAIN f |-> (0 - f[i]) % ScalarModulus]

----------------------------------------------------------------------------
(* The plan and the execution of one insert *)

\* the step is an insert; the instructions planned for it in the storage
\* before the step
InsertStep == count' = count + 1
StepKey == last'[1].key
StepValue == last'[1].value
StepPlan == create_insert_instructions(storage, StepKey, StepValue).instructions

\* C24: planning returns no instruction only when the key has a stored leaf
\* whose value is the inserted value
C24_EmptyPlanOnlyForStoredValue ==
    [][(InsertStep /\ StepPlan = <<>>)
          => get_leaf(storage, StepKey) = Some(StepValue)]_vars

\* the outcome of executing the instructions k, k - 1, .. , i + 1 of the plan:
\* the storage in which instruction i is executed when the status is "ok"
RECURSIVE ExecutedDownTo(_, _, _, _)
ExecutedDownTo(db, instructions, k, i) ==
    IF k <= i THEN [db |-> db, status |-> "ok"]
    ELSE IF ExecIns(db, instructions[k]).status = "ok"
    THEN ExecutedDownTo(ExecIns(db, instructions[k]).db, instructions, k - 1, i)
    ELSE ExecIns(db, instructions[k])

\* the instruction ins, an InternalNodeFallThrough planned in the storage
\* planned_in, is executed in the storage before and the insert ends in the
\* storage final: the hash it reads for its child is the final one, it
\* captured the child hash of planning time, it adds their difference at the
\* child index to the commitment of its branch, and nothing later rewrites
\* that branch
FallThroughReadsFinalChild(ins, planned_in, before, final) ==
    /\ ins.old_child_value = get_branch_meta(planned_in, ins.child)
    /\ get_branch_meta(before, ins.child) = get_branch_meta(final, ins.child)
    /\ ExecIns(before, ins).status = "ok" =>
          /\ get_branch_meta(final, ins.branch_id)
               = get_branch_meta(ExecIns(before, ins).db, ins.branch_id)
          /\ get_branch_meta(final, ins.branch_id)[1].commitment
               = GAdd(get_branch_meta(before, ins.branch_id)[1].commitment,
                      ScalarMul(
                          FrSub(get_branch_meta(final, ins.child)[1].hash_commitment,
                                OldChildHash(ins.old_child_value)),
                          ins.branch_child_index))

\* C25: instructions run from the last to the first, so an
\* InternalNodeFallThrough that is executed reads the final hash of its child
\* branch for this insert and applies that hash minus the one captured at
\* planning time
C25_FallThroughAfterChild ==
    [][InsertStep =>
          \A i \in 1 .. Len(StepPlan) :
              (/\ StepPlan[i].op = "InternalNodeFallThrough"
               /\ ExecutedDownTo(storage, StepPlan, Len(StepPlan), i).status
                    = "ok")
              => FallThroughReadsFinalChild(
                     StepPlan[i], storage,
                     ExecutedDownTo(storage, StepPlan, Len(StepPlan), i).db,
                     storage')]_vars

\* the third insert went down through two branches that the second insert
\* had created, and stored a second leaf under a stem below them
C25_Witness ==
    /\ count = 3
    /\ ~panicked
    /\ ~dup
    /\ last[1].old = None
    /\ IsBranch(storage, SubSeq(last[1].key, 1, 2))
    /\ Cardinality(DOMAIN storage.leaf) = 3
    /\ Cardinality({k \in DOMAIN storage.leaf :
          StemOf(k) = StemOf(last[1].key)}) = 2

\* the branch and the child index a terminal instruction is addressed to
TerminalBranch(ins) ==
    IF ins.op = "UpdateLeaf" THEN ins.branch_id ELSE ins.parent_branch_node
TerminalIndex(ins) ==
    IF ins.op = "UpdateLeaf" THEN ins.branch_child_index ELSE ins.child_index

\* the plan for key in the storage db is j fall-throughs along the key, one
\* for each branch below the root on the way, and then one terminal
\* instruction at the branch key[1 .. j] and the child index key[j + 1]
FallThroughsThenTerminal(plan, key, db, j) ==
    /\ \A i \in 1 .. j :
          /\ plan[i].op = "InternalNodeFallThrough"
          /\ plan[i].branch_id = SubSeq(key, 1, i - 1)
          /\ plan[i].branch_child_index = key[i]
          /\ plan[i].child = SubSeq(key, 1, i)
          /\ plan[i].depth = i
          /\ IsBranch(db, plan[i].child)
    /\ plan[j + 1].op \in {"UpdateLeaf", "ChainInsert"}
    /\ TerminalBranch(plan[j + 1]) = SubSeq(key, 1, j)
    /\ TerminalIndex(plan[j + 1]) = key[j + 1]
    /\ ~IsBranch(db, SubSeq(key, 1, j + 1))

\* C26: a plan is empty, or it is j >= 0 InternalNodeFallThrough instructions
\* along the key in root-to-leaf order followed by exactly one terminal
\* instruction, UpdateLeaf or ChainInsert, at the branch key[1 .. j] and the
\* child index key[j + 1]
C26_PlanShape ==
    [][InsertStep =>
          \/ StepPlan = <<>>
          \/ FallThroughsThenTerminal(StepPlan, StepKey, storage,
                                      Len(StepPlan) - 1)]_vars

\* three stems below the branch at the first index of the last key and a
\* branch two levels down: the third insert fell through the root
C26_Witness ==
    /\ count = 3
    /\ ~panicked
    /\ ~dup
    /\ Cardinality({StemOf(k) : k \in DOMAIN storage.leaf}) = 3
    /\ IsBranch(storage, SubSeq(last[1].key, 1, 1))
    /\ \A k \in DOMAIN storage.leaf : k[1] = last[1].key[1]
    /\ \E path \in DOMAIN storage.branch :
          Len(path) = 2 /\ IsBranch(storage, path)

\* the number of leading indices on which two stems agree
CommonPrefixLen(a, b) ==
    CHOOSE n \in 0 .. StemLen :
        /\ \A i \in 1 .. n : a[i] = b[i]
        /\ n = StemLen \/ a[n + 1] # b[n + 1]

\* the stem that planning finds at depth d on the way of the key
StemFoundAt(db, key, d) == db.branch[SubSeq(key, 1, d)].stem

\* planning at depth d found a stem that shares fewer than StemLen indices
\* with the stem of the key
FindsOtherStem(db, key, d) ==
    /\ \A i \in 1 .. (d - 1) : IsBranch(db, SubSeq(key, 1, i))
    /\ IsStemRef(db, SubSeq(key, 1, d))
    /\ CommonPrefixLen(StemFoundAt(db, key, d), StemOf(key)) < StemLen

\* the plan ends with its only ChainInsert, at depth d, whose chain path is
\* the shared prefix without its first drop entries
ChainInsertAt(plan, db, key, value, d, drop) ==
    /\ Len(plan) = d
    /\ \A i \in 1 .. (d - 1) : plan[i].op # "ChainInsert"
    /\ plan[d].op = "ChainInsert"
    /\ plan[d].chain_insert_path
         = SubSeq(StemOf(key), drop + 1,
                  CommonPrefixLen(StemFoundAt(db, key, d), StemOf(key)))
    /\ plan[d].starting_depth = d
    /\ plan[d].parent_branch_node = SubSeq(key, 1, d - 1)
    /\ plan[d].child_index = key[d]
    /\ plan[d].old_leaf_index
         = StemFoundAt(db, key, d)[
               CommonPrefixLen(StemFoundAt(db, key, d), StemOf(key)) + 1]
    /\ plan[d].new_leaf_index
         = key[CommonPrefixLen(StemFoundAt(db, key, d), StemOf(key)) + 1]
    /\ plan[d].new_leaf_key = key
    /\ plan[d].new_leaf_value = value

\* C27 as stated: the chain path is the shared prefix without its first d
\* entries, d being the depth at which the stem is found
C27_ChainPathDropsDepth ==
    [][InsertStep =>
          \A d \in 1 .. StemLen :
              FindsOtherStem(storage, StepKey, d)
              => ChainInsertAt(StepPlan, storage, StepKey, StepValue, d, d)]_vars

\* C27 amended: planning that finds at depth d a stem sharing fewer than
\* StemLen indices with the key emits a single ChainInsert whose chain path
\* is the shared prefix without its first d - 1 entries, with starting depth
\* d, the current branch as parent, the current index as child index, and
\* the first differing indices of the old stem and of the new key
C27_ChainPathFromCurrentIndex ==
    [][InsertStep =>
          \A d \in 1 .. StemLen :
              FindsOtherStem(storage, StepKey, d)
              => ChainInsertAt(StepPlan, storage, StepKey, StepValue, d,
                               d - 1)]_vars

\* the third insert found another stem at depth two and moved it one level
\* down, next to its own
C27_Witness ==
    /\ count = 3
    /\ ~panicked
    /\ ~dup
    /\ Cardinality({StemOf(k) : k \in DOMAIN storage.leaf}) = 3
    /\ IsBranch(storage, SubSeq(last[1].key, 1, 2))
    /\ IsStemRef(storage, SubSeq(last[1].key, 1, 3))
    /\ storage.branch[SubSeq(last[1].key, 1, 3)].stem = StemOf(last[1].key)
    /\ \E i \in PathIdx : IsStemRef(storage, <<last[1].key[1], i>>)

\* the child indices of the branch at path that are occupied
OccupiedSlots(db, path) ==
    {i \in PathIdx : get_branch_child(db, path, i) # None}

\* the j-th branch of the chain of the instruction ins
ChainBranch(ins, j) ==
    ins.parent_branch_node \o SubSeq(ins.chain_insert_path, 1, j)

\* the branch at the bottom of the chain holds the new stem and the old stem
\* and nothing else
BottomHoldsTwoStems(ins, old_stem, final) ==
    /\ OccupiedSlots(final, ChainBranch(ins, Len(ins.chain_insert_path)))
         = {ins.new_leaf_index, ins.old_leaf_index}
    /\ ins.new_leaf_index # ins.old_leaf_index
    /\ get_branch_child(final, ChainBranch(ins, Len(ins.chain_insert_path)),
                        ins.new_leaf_index)[1]
         = [kind |-> "stem", stem |-> StemOf(ins.new_leaf_key),
            depth |-> Len(ins.chain_insert_path)
                      + Len(ins.parent_branch_node)]
    /\ get_branch_child(final, ChainBranch(ins, Len(ins.chain_insert_path)),
                        ins.old_leaf_index)[1].kind = "stem"
    /\ get_branch_child(final, ChainBranch(ins, Len(ins.chain_insert_path)),
                        ins.old_leaf_index)[1].stem = old_stem

\* the j-th branch of the chain, above the bottom, holds the branch below it
\* and commits to its hash at the index leading to it
HoldsBranchBelow(ins, j, final) ==
    /\ OccupiedSlots(final, ChainBranch(ins, j))
         = {ins.chain_insert_path[j + 1]}
    /\ IsBranch(final, ChainBranch(ins, j + 1))
    /\ final.branch[ChainBranch(ins, j)].meta
         = BranchMetaOf(
               ScalarMul(final.branch[ChainBranch(ins, j + 1)].meta.hash_commitment,
                         ins.chain_insert_path[j + 1]))

\* the ChainInsert ins, executed in the storage before, old_stem being the
\* stem it moves, left the storage final
ChainCreated(ins, old_stem, before, final) ==
    /\ {p \in DOMAIN final.branch : IsBranch(final, p) /\ ~IsBranch(before, p)}
         = {ChainBranch(ins, j) : j \in 1 .. Len(ins.chain_insert_path)}
    /\ Cardinality({ChainBranch(ins, j) : j \in 1 .. Len(ins.chain_insert_path)})
         = Len(ins.chain_insert_path)
    /\ BottomHoldsTwoStems(ins, old_stem, final)
    /\ \A j \in 1 .. (Len(ins.chain_insert_path) - 1) :
          HoldsBranchBelow(ins, j, final)

\* C28: a ChainInsert creates one branch for each prefix of its chain path
\* below the parent branch; the bottom one holds exactly the new stem and the
\* old stem at their two different indices, and every other one holds
\* exactly the branch below it and commits to its hash at the chain index
\* that leads to it
C28_ChainInsertCreatesChain ==
    [][(/\ InsertStep
        /\ StepPlan # <<>>
        /\ StepPlan[Len(StepPlan)].op = "ChainInsert")
          => ChainCreated(
                 StepPlan[Len(StepPlan)],
                 StemFoundAt(storage, StepKey, Len(StepPlan)),
                 storage, storage')]_vars

\* a chain of two branches, reached by two different indices, has been
\* created below the root
C28_Witness ==
    /\ count = 2
    /\ ~panicked
    /\ \E path \in DOMAIN storage.branch :
          /\ Len(path) = 2
          /\ path[1] # path[2]
          /\ IsBranch(storage, path)
          /\ Cardinality(OccupiedSlots(storage, path)) = 2
          /\ Cardinality(OccupiedSlots(storage, SubSeq(path, 1, 1))) = 1
          /\ storage.branch[SubSeq(path, 1, 1)].meta.hash_commitment # FrZero

----------------------------------------------------------------------------
(* The helper polynomial of the opener *)

\* the product of x - omega^k over the k < n other than i
RECURSIVE ProductAway(_, _, _)
ProductAway(x, i, n) ==
    IF n = 0 THEN 1
    ELSE IF n - 1 = i THEN ProductAway(x, i, n - 1)
    ELSE (ProductAway(x, i, n - 1) * ((x - DomainElements[n - 1]) % ScalarModulus))
         % ScalarModulus

\* the value at x of the polynomial of degree less than D that takes the
\* values f over the domain, by the interpolation formula
RECURSIVE InterpolationAt(_, _, _)
InterpolationAt(f, x, n) ==
    IF n = 0 THEN 0
    ELSE (InterpolationAt(f, x, n - 1)
          + f[n - 1] * ProductAway(x, n - 1, DomainSize)
            * Inverse(ProductAway(DomainElements[n - 1], n - 1, DomainSize)))
         % ScalarModulus

\* the sum over j of (r^(j-1) / (t - z_j)) * f_j at the index i of the domain
RECURSIVE HelperAt(_, _)
HelperAt(n, i) ==
    IF n = 0 THEN 0
    ELSE (HelperAt(n - 1, i)
          + PowBySquaring(opener[1].r, n - 1)
            * Inverse((opener[1].t - opener[1].in.points[n]) % ScalarModulus)
            * opener[1].in.polys[n][i]) % ScalarModulus

\* C31: h is the sum over j of (r^j / (t - z_j)) * f_j pointwise over the
\* domain, the j-th polynomial being paired with the j-th power of r and the
\* j-th point; the helper evaluation of the proof is the value of h at t, and
\* its sum quotient is the commitment to g
C31_HelperPolynomial ==
    Opened =>
        /\ opener[1].out[1].h_x
             = [i \in DomainIdx |-> HelperAt(Len(opener[1].in.polys), i)]
        /\ opener[1].out[1].helper_evaluation
             = InterpolationAt(
                   [i \in DomainIdx |-> HelperAt(Len(opener[1].in.polys), i)],
                   opener[1].t, DomainSize)
        /\ opener[1].out[1].sum_quotient
             = commit_lagrange(opener[1].out[1].g_x)

\* a run over polynomials opened at different points whose helper polynomial
\* is not constant and does not vanish at t
C31_Witness ==
    /\ Opened
    /\ Len(opener[1].in.polys) >= 2
    /\ opener[1].in.points[1] # opener[1].in.points[2]
    /\ opener[1].out[1].helper_evaluation # 0
    /\ opener[1].out[1].h_x[0] # opener[1].out[1].h_x[1]
    /\ opener[1].out[1].sum_quotient.commitment # [i \in DomainIdx |-> 0]

----------------------------------------------------------------------------
(* The records an insert leaves alone *)

\* the record of the table at the key k, or None
RecordAt(table, k) == IF k \in DOMAIN table THEN Some(table[k]) ELSE None

\* the path is a prefix of the key
IsPathOf(path, key) ==
    Len(path) <= Len(key) /\ path = SubSeq(key, 1, Len(path))

\* the paths that hold a branch before or after the step
BranchPaths(before, final) ==
    {p \in (DOMAIN before.branch) \cup (DOMAIN final.branch) :
        IsBranch(before, p) \/ IsBranch(final, p)}

\* C32: an insert of a key leaves every leaf of another key, the metadata of
\* every stem other than the stem of the key, and every branch whose path is
\* not a prefix of the key as they were
C32_InsertFrame ==
    [][InsertStep =>
          /\ \A k \in ((DOMAIN storage.leaf) \cup (DOMAIN storage'.leaf))
                          \ {StepKey} :
                RecordAt(storage'.leaf, k) = RecordAt(storage.leaf, k)
          /\ \A st \in ((DOMAIN storage.stem) \cup (DOMAIN storage'.stem))
                          \ {StemOf(StepKey)} :
                RecordAt(storage'.stem, st) = RecordAt(storage.stem, st)
          /\ \A p \in BranchPaths(storage, storage') :
                ~IsPathOf(p, StepKey)
                  => RecordAt(storage'.branch, p)
                       = RecordAt(storage.branch, p)]_vars

\* a chain insert has moved an old stem one level deeper, below a branch that
\* holds a third stem
C32_Witness ==
    /\ count >= 3
    /\ ~panicked
    /\ Cardinality(DOMAIN storage.stem) = 3
    /\ \E p \in DOMAIN storage.branch :
          /\ IsBranch(storage, p)
          /\ Len(p) >= 1
          /\ IsPathOf(p, last[1].key)
          /\ Cardinality(OccupiedSlots(storage, p)) = 2
          /\ Cardinality({st \in DOMAIN storage.stem :
                             get_stem_meta(storage, st) # None
                             /\ IsPathOf(p, st)}) = 2
    /\ Cardinality(DOMAIN storage.leaf) >= 3
    /\ last[1].old = None

----------------------------------------------------------------------------
(* The preconditions of a chain insert *)

\* every stem referenced from a slot of the branch table starts with the
\* path of that slot
StemsUnderTheirPath(db) ==
    \A slot \in DOMAIN db.branch :
        db.branch[slot].kind = "stem"
          => /\ Len(slot) >= 1
             /\ IsBranch(db, SubSeq(slot, 1, Len(slot) - 1))
             /\ IsPathOf(slot, db.branch[slot].stem)

\* the assertions and the unwraps of the execution of the ChainInsert ins in
\* the storage db succeed
ChainInsertPreconditions(db, ins) ==
    /\ Len(ins.chain_insert_path) > 0
    /\ get_branch_child(db, ins.parent_branch_node, ins.child_index) # None
    /\ get_branch_child(db, ins.parent_branch_node, ins.child_index)[1].kind
         = "stem"
    /\ get_stem_meta(db,
           get_branch_child(db, ins.parent_branch_node, ins.child_index)[1].stem)
         # None
    /\ get_leaf(db, ins.new_leaf_key) = None
    /\ update_leaf_table(db, ins.new_leaf_key, ins.new_leaf_value,
                         Len(ins.parent_branch_node)
                         + Len(ins.chain_insert_path)).res # None

\* C33: in every state reached by inserts a stem referenced from index i of
\* the branch at path p starts with p ++ [i], and whenever a ChainInsert is
\* executed its path is not empty, the slot of the parent holds a stem with
\* stored metadata, the new key has no stored leaf and the execution does
\* not fail
C33_ChainInsertNeverFails ==
    /\ []StemsUnderTheirPath(storage)
    /\ [][(/\ InsertStep
           /\ StepPlan # <<>>
           /\ StepPlan[Len(StepPlan)].op = "ChainInsert")
             => /\ ChainInsertPreconditions(storage, StepPlan[Len(StepPlan)])
                /\ ~panicked']_vars

\* a chain insert below a branch under the root has succeeded: its bottom
\* branch holds the stem of the last key and another stem
C33_Witness ==
    /\ count = 3
    /\ ~panicked
    /\ last[1].old = None
    /\ \E p \in DOMAIN storage.branch :
          /\ Len(p) = 2
          /\ IsBranch(storage, p)
          /\ IsPathOf(p, last[1].key)
          /\ \E i \in PathIdx :
                /\ Append(p, i) \in DOMAIN storage.branch
                /\ storage.branch[Append(p, i)].kind = "stem"
                /\ storage.branch[Append(p, i)].stem = StemOf(last[1].key)
          /\ \E i \in PathIdx :
                /\ Append(p, i) \in DOMAIN storage.branch
                /\ storage.branch[Append(p, i)].kind = "stem"
                /\ storage.branch[Append(p, i)].stem # StemOf(last[1].key)
    /\ Cardinality({k \in DOMAIN storage.leaf :
                       StemOf(k) = StemOf(last[1].key)}) = 1

----------------------------------------------------------------------------
(* The depth of the walk *)

\* no branch lies deeper than the last index of a stem but one
BranchesAboveStemEnd(db) ==
    \A p \in DOMAIN db.branch : IsBranch(db, p) => Len(p) <= StemLen - 1

\* the walk along the key passes the branches key[1 .. j], j < d, and finds
\* at the d-th index a slot that is empty or holds a stem
StopsAt(db, key, d) ==
    /\ \A j \in 1 .. (d - 1) : IsBranch(db, SubSeq(key, 1, j))
    /\ ~IsBranch(db, SubSeq(key, 1, d))

\* C34: no branch path is longer than the stem length less one, so the walk
\* of every insert stops at an empty slot or at a stem within the indices of
\* the stem, and the plan it returns is empty or ends, after the branches
\* passed, with a terminal instruction
C34_WalkStopsWithinStem ==
    /\ []BranchesAboveStemEnd(storage)
    /\ [][InsertStep =>
             \E d \in 1 .. StemLen :
                /\ StopsAt(storage, StepKey, d)
                /\ \/ StepPlan = <<>>
                   \/ /\ Len(StepPlan) = d
                      /\ StepPlan[d].op \in {"UpdateLeaf", "ChainInsert"}
                      /\ \A j \in 1 .. (d - 1) :
                            StepPlan[j].op = "InternalNodeFallThrough"]_vars

\* a stored leaf below a branch of the greatest depth has been overwritten:
\* the walk passed that branch and stopped at the last index of the stem
C34_Witness ==
    /\ count >= 3
    /\ ~panicked
    /\ last[1].old # None
    /\ last[1].old # Some(last[1].value)
    /\ IsBranch(storage, SubSeq(last[1].key, 1, StemLen - 1))
    /\ get_leaf(storage, last[1].key) = Some(last[1].value)

----------------------------------------------------------------------------
(* The depth recorded for a branch *)

\* C35: the depth recorded for every branch is the length of its path, so
\* the depth of the root is 0
C35_BranchDepthIsPathLength ==
    \A p \in DOMAIN storage.branch :
        IsBranch(storage, p) => storage.branch[p].depth = Len(p)

----------------------------------------------------------------------------
(* The cached commitments of the arena *)

\* the internal nodes met by the walk along the key from the node current,
\* current included: the walk descends while the child is an internal node
RECURSIVE InternalsOnPath(_, _, _, _)
InternalsOnPath(a, key, current, i) ==
    IF i > Len(key) \/ Child(a.children, current, key[i]) = None
       \/ a.nodes[Child(a.children, current, key[i])[1]].kind # "internal"
    THEN {current}
    ELSE {current}
         \cup InternalsOnPath(a, key, Child(a.children, current, key[i])[1],
                              i + 1)

\* the step is an insert into the arena that completed
ArenaInsertDone == arena'.count = arena.count + 1 /\ arena'.status = "ok"

\* C36: after an insert into the arena has completed, no internal node on the
\* path from the root to the inserted key, visited or newly created, has a
\* cached commitment
C36_PathCommitmentsReset ==
    [][ArenaInsertDone =>
          \A n \in InternalsOnPath(arena', arena'.last[1].key, root_index, 1) :
              /\ arena'.nodes[n].kind = "internal"
              /\ arena'.nodes[n].commitment = None]_vars

\* an insert has completed through an internal node below the root in an
\* arena that was loaded with cached commitments and a hashed node: the two
\* nodes have no cached commitment now
C36_Witness ==
    /\ arena.status = "ok"
    /\ arena.count >= 1
    /\ Cardinality(InternalsOnPath(arena, arena.last[1].key, root_index, 1)) >= 2
    /\ \A n \in InternalsOnPath(arena, arena.last[1].key, root_index, 1) :
          arena.nodes[n].commitment = None
    /\ \E n \in 1 .. Len(arena.nodes) : arena.nodes[n].kind = "hashed"

----------------------------------------------------------------------------
(* The instructions of the arena *)

\* the step is an insert into the arena; the list find_insert_position
\* gathers for it in the arena before the step
ArenaInsertStep == arena'.count = arena.count + 1
ArenaStepPlan ==
    find_insert_position(arena.nodes, arena.children, arena'.last[1].key,
                         arena'.last[1].value)

\* C37: find_insert_position never emits UpdateLeaf: every list starts with a
\* ResetComm and holds only ResetComm, UpdateInternalChild and UpdateLeafExt
\* instructions, and no insert reaches the arm of UpdateLeaf that is not
\* implemented
C37_NoUpdateLeaf ==
    [][ArenaInsertStep =>
          /\ ArenaStepPlan.instructions # <<>>
          /\ ArenaStepPlan.instructions[1].op = "ResetComm"
          /\ \A i \in 1 .. Len(ArenaStepPlan.instructions) :
                ArenaStepPlan.instructions[i].op
                    \in {"ResetComm", "UpdateInternalChild", "UpdateLeafExt"}
          /\ arena'.status # "todo"]_vars

\* the value of a stored key has been updated in an arena that holds a chain:
\* the leaf extension of the last key has two values at its last index
C37_Witness ==
    /\ arena.status = "ok"
    /\ arena.count = 3
    /\ \E n \in 2 .. Len(arena.nodes) : arena.nodes[n].kind = "internal"
    /\ \E n \in 1 .. Len(arena.nodes) :
          /\ arena.nodes[n].kind = "leaf_ext"
          /\ arena.nodes[n].key = arena.last[1].key
          /\ Child(arena.children, n, arena.last[1].key[ArenaPaths]) # None
          /\ arena.nodes[Child(arena.children, n,
                               arena.last[1].key[ArenaPaths])[1]]
               = ValueNode(arena.last[1].value)
          /\ arena.nodes[n].value # arena.last[1].value

----------------------------------------------------------------------------
(* The merge of two paths *)

\* the four sequences of the path have the same length
Aligned(path) ==
    /\ Len(path.node_roots) = Len(path.omega_path_indices)
    /\ Len(path.commitments) = Len(path.omega_path_indices)
    /\ Len(path.polynomials) = Len(path.omega_path_indices)

\* the i-th opening of an aligned path
OpeningAt(path, i) ==
    <<path.omega_path_indices[i], path.node_roots[i], path.commitments[i],
      path.polynomials[i]>>

\* C38: the merge of two paths whose four sequences have equal lengths has
\* four sequences of equal length, the sum of the two lengths; its openings
\* are those of self in their order followed by those of other in theirs,
\* the i-th entries of the four sequences belonging to one opening
C38_MergeKeepsAligned ==
    (Returned("merge") /\ Aligned(call[1].self) /\ Aligned(call[1].other)) =>
        /\ Aligned(result[1])
        /\ Len(result[1].polynomials)
             = Len(call[1].self.polynomials) + Len(call[1].other.polynomials)
        /\ \A i \in 1 .. Len(result[1].polynomials) :
              OpeningAt(result[1], i)
                = IF i <= Len(call[1].self.polynomials)
                  THEN OpeningAt(call[1].self, i)
                  ELSE OpeningAt(call[1].other,
                                 i - Len(call[1].self.polynomials))

\* two aligned paths of different openings, the first of two and the second
\* of one, have been merged
C38_Witness ==
    /\ Returned("merge")
    /\ Aligned(call[1].self)
    /\ Aligned(call[1].other)
    /\ Len(call[1].self.polynomials) = 2
    /\ Len(call[1].other.polynomials) = 1
    /\ OpeningAt(call[1].self, 1) # OpeningAt(call[1].self, 2)
    /\ OpeningAt(call[1].other, 1) # OpeningAt(call[1].self, 1)
    /\ call[1].other.node_roots[1] # call[1].self.node_roots[1]
    /\ Len(result[1].commitments) = 3

----------------------------------------------------------------------------
(* The index arithmetic of the division *)

\* the residue of the integer x modulo the size of the domain
ResidueModDomain(x) ==
    CHOOSE r \in DomainIdx : \E q \in -1 .. 1 : x = q * DomainSize + r

\* C39: for all index and i of the domain the unsigned expressions
\* index.wrapping_sub(i).rem_euclid(D) and i.wrapping_sub(index).rem_euclid(D)
\* are (index - i) mod D and (i - index) mod D, also when the subtraction
\* wraps around the machine word, and (D - i) % D selects the inverse of
\* omega^i
C39_WrappedIndices ==
    Returned("divide_by_linear_vanishing") =>
        \A i \in DomainIdx :
            /\ WrappingSubRemEuclid(call[1].index, i, DomainSize)
                 = ResidueModDomain(call[1].index - i)
            /\ WrappingSubRemEuclid(i, call[1].index, DomainSize)
                 = ResidueModDomain(i - call[1].index)
            /\ (DomainElements[(DomainSize - i) % DomainSize]
                * DomainElements[i]) % ScalarModulus = 1
            /\ i # call[1].index =>
                 result[1].evals[i]
                   = ((call[1].f_x[i] - call[1].f_x[call[1].index])
                      * Inverse(DomainElements[i])
                      * call[1].inv[ResidueModDomain(call[1].index - i)])
                     % ScalarModulus

\* a division at an index below the last, so that the subtraction wraps
\* around the word for the indices above it, of values that differ there
C39_Witness ==
    /\ Returned("divide_by_linear_vanishing")
    /\ call[1].index < DomainSize - 1
    /\ call[1].index - (DomainSize - 1) < 0
    /\ WrappingSubRemEuclid(call[1].index, DomainSize - 1, DomainSize)
         = call[1].index + 1
    /\ call[1].f_x[DomainSize - 1] # call[1].f_x[call[1].index]
    /\ result[1].evals[DomainSize - 1] # 0

----------------------------------------------------------------------------
(* The powers of a scalar, called alone and by the opener *)

InitPowers ==
    \/ InitCalls /\ call[1].fn = "powers_of"
    \/ InitOpener

NextPowers ==
    \/ CallPowersOf
    \/ opener # None /\ NextOpener

SpecPowers == InitPowers /\ [][NextPowers]_vars

\* powers_of(x, d) is the d + 1 elements x^0 .. x^d
IsPowers(v, x, d) ==
    /\ DOMAIN v = 0 .. d
    /\ Cardinality(DOMAIN v) = d + 1
    /\ \A i \in 0 .. d : v[i] = PowBySquaring(x, i)

\* the run of the opener over m polynomials drew the m powers r^0 .. r^(m-1)
\* and summed m terms into g and m terms into h, the j-th made with r^(j-1)
OpenerUsesPowers(m) ==
    /\ IsPowers(powers_of(opener[1].r, m - 1), opener[1].r, m - 1)
    /\ Len(WitnessTerms(
              each_witness(InputPolynomials(opener[1].in.polys),
                           opener[1].in.points, opener[1].in.evaluations,
                           compute_inv(DomainElements), DomainElements, FALSE),
              powers_of(opener[1].r, m - 1))) = m
    /\ Len(HelperTerms(helper_coefficients(powers_of(opener[1].r, m - 1),
                                           opener[1].in.points, opener[1].t),
                       InputPolynomials(opener[1].in.polys))) = m
    /\ opener[1].out[1].g_x = SequentialSum(RunWitnessTerms, m)
    /\ opener[1].out[1].h_x = SequentialSum(RunHelperTerms, m)

\* C22: powers_of(x, d) returns d + 1 elements, the i-th being x^i for
\* i = 0 .. d; the opener of m polynomials, calling powers_of(r, m - 1), uses
\* exactly the m powers r^0 .. r^(m-1), one for each polynomial
C22_PowersOf ==
    /\ Returned("powers_of") => IsPowers(result[1], call[1].x, call[1].degree)
    /\ Opened => OpenerUsesPowers(Len(opener[1].in.polys))

\* a run of the opener over the most polynomials, with a challenge whose
\* last power used is neither 1 nor the challenge, and g and h not zero
C22_Witness ==
    /\ Opened
    /\ Len(opener[1].in.polys) = MaxPolys
    /\ PowBySquaring(opener[1].r, MaxPolys - 1) \notin {1, opener[1].r}
    /\ \E i \in DomainIdx : opener[1].out[1].g_x[i] # 0
    /\ \E i \in DomainIdx : opener[1].out[1].h_x[i] # 0

====
